---- MODULE Spec2Model ----
(***************************************************************************)
(* Harmony STL codec: the ASCII parser and serializer (src/src/STL/         *)
(* Ascii.cpp), the binary parser and serializer (src/src/STL/Binary.cpp,   *)
(* src/Harmony/STL/Binary.h), the autodetect dispatcher (src/src/STL/      *)
(* Parse.cpp) and the geometry primitives (src/Harmony/STL/Mesh.h).        *)
(*                                                                         *)
(* Text and streams are sequences of bytes (0..255).  A float is its       *)
(* IEEE-754 binary32 fields [s, e, m].  Tuples are 1-based: the code's     *)
(* v[0], v[1], v[2] are v[1], v[2], v[3] here.                             *)
(***************************************************************************)
EXTENDS Integers, Sequences, FiniteSets, TLC

(***************************************************************************)
(* Bytes and text literals                                                 *)
(***************************************************************************)
\* The printable bytes 35..91 and 97..126, in order.
AsciiMid == "#$%&'()*+,-./0123456789:;<=>?@ABCDEFGHIJKLMNOPQRSTUVWXYZ["

AsciiHigh == "abcdefghijklmnopqrstuvwxyz{|}~"

\* The byte of a one-character string.
Ord(c) ==
    IF c = "\n" THEN 10
    ELSE IF c = "\t" THEN 9
    ELSE IF c = "\r" THEN 13
    ELSE IF c = " " THEN 32
    ELSE IF c = "!" THEN 33
    ELSE IF \E k \in 1..Len(AsciiMid) : SubSeq(AsciiMid, k, k) = c
         THEN 34 + (CHOOSE k \in 1..Len(AsciiMid) : SubSeq(AsciiMid, k, k) = c)
    ELSE IF c = "]" THEN 93
    ELSE IF c = "^" THEN 94
    ELSE IF c = "_" THEN 95
    ELSE 96 + (CHOOSE k \in 1..Len(AsciiHigh) : SubSeq(AsciiHigh, k, k) = c)

\* The bytes of a string literal.
B(s) == [i \in 1..Len(s) |-> Ord(SubSeq(s, i, i))]

NL == 10

\* std::isspace in the C locale: space and the bytes 9..13.
isspace(c) == c = 32 \/ (c >= 9 /\ c <= 13)

\* std::tolower in the C locale.
tolower(c) == IF c >= 65 /\ c <= 90 THEN c + 32 ELSE c

isdigit(c) == c >= 48 /\ c <= 57

(***************************************************************************)
(* 32-bit floats: [s, e, m] are the sign, biased exponent and fraction of  *)
(* IEEE-754 binary32.  Sums of non-negative floats are computed bit-exactly *)
(* (round to nearest, ties to even).  Differences and products of floats   *)
(* that hold integers below 2^12 in magnitude are computed through         *)
(* integers, each difference and each product rounded to the nearest float *)
(* on its own, as a build without fused multiply-add does.  Quotients and  *)
(* square roots are computed where the square root is a whole number       *)
(* below 128; outside that range the operators are undefined and           *)
(* evaluation stops.                                                       *)
(***************************************************************************)
Pow23 == 8388608

Pow24 == 16777216

float(s, e, m) == [s |-> s, e |-> e, m |-> m]

FZero == float(0, 0, 0)

FInf(s) == float(s, 255, 0)

FNaN == float(0, 255, 4194304)

IsNaN(f) == f.e = 255 /\ f.m # 0

IsZero(f) == f.e = 0 /\ f.m = 0

\* The value of f is (-1)^s * Sig(f) * 2^(Exp(f) - 150).
Sig(f) == IF f.e = 0 THEN f.m ELSE Pow23 + f.m

Exp(f) == IF f.e = 0 THEN 1 ELSE f.e

\* std::abs(float)
fabs(f) == [f EXCEPT !.s = 0]

\* a < b for non-negative a and b (false when either is NaN).
FLessNonNeg(a, b) ==
    /\ ~IsNaN(a) /\ ~IsNaN(b)
    /\ (a.e < b.e \/ (a.e = b.e /\ a.m < b.m))

\* n shifted right by d bits, the bits shifted out kept as a sticky low bit.
ShiftSticky(n, d) ==
    IF d >= 30 THEN (IF n # 0 THEN 1 ELSE 0)
    ELSE LET q == n \div (2 ^ d)
         IN  IF n % (2 ^ d) # 0 /\ q % 2 = 0 THEN q + 1 ELSE q

\* sig * 2^(ex - 153), sig below 2^28 with three guard bits, rounded to a float.
RoundPack(sig, ex) ==
    LET over == sig >= 8 * Pow24
        s1   == IF over THEN ShiftSticky(sig, 1) ELSE sig
        e1   == IF over THEN ex + 1 ELSE ex
        q    == s1 \div 8
        r    == s1 % 8
        q2   == IF r > 4 \/ (r = 4 /\ q % 2 = 1) THEN q + 1 ELSE q
        q3   == IF q2 = Pow24 THEN Pow23 ELSE q2
        e3   == IF q2 = Pow24 THEN e1 + 1 ELSE e1
    IN  IF e3 >= 255 THEN FInf(0)
        ELSE IF q3 < Pow23 THEN float(0, 0, q3)
        ELSE float(0, e3, q3 - Pow23)

\* a + b in float arithmetic, for non-negative a and b.
FAddNonNeg(a, b) ==
    IF IsNaN(a) \/ IsNaN(b) THEN FNaN
    ELSE IF a.e = 255 \/ b.e = 255 THEN FInf(0)
    ELSE LET hi == IF Exp(a) >= Exp(b) THEN a ELSE b
             lo == IF Exp(a) >= Exp(b) THEN b ELSE a
         IN  RoundPack(8 * Sig(hi) + ShiftSticky(8 * Sig(lo), Exp(hi) - Exp(lo)), Exp(hi))

\* v where the float operators are computed exactly; no value elsewhere.
InRange(cond, v) == IF cond THEN v ELSE CHOOSE x \in {} : TRUE

\* The integer a float holds, for integers below 2^12 in magnitude.
FToInt(f) ==
    IF IsZero(f) THEN 0
    ELSE LET k == CHOOSE k \in 0..11 : f.e = 127 + k /\ Sig(f) % (2 ^ (23 - k)) = 0
             n == Sig(f) \div (2 ^ (23 - k))
         IN  IF f.s = 1 THEN 0 - n ELSE n

RECURSIVE NormUp(_, _, _)
\* <<n * 2^k, sh + k>> for the least k >= 0 with n * 2^k >= Pow23 * den.
NormUp(n, den, sh) ==
    IF n >= Pow23 * den THEN <<n, sh>> ELSE NormUp(2 * n, den, sh + 1)

\* The float nearest to num / den (ties to even), for 0 < den < 128 and
\* |num| < 2^24 * den.
QToF(num, den) ==
    IF num = 0 THEN FZero
    ELSE LET a  == IF num < 0 THEN 0 - num ELSE num
             ns == NormUp(a, den, 0)
             q  == ns[1] \div den
             r  == ns[1] % den
             q2 == IF 2 * r > den \/ (2 * r = den /\ q % 2 = 1) THEN q + 1 ELSE q
             q3 == IF q2 = Pow24 THEN Pow23 ELSE q2
             e3 == IF q2 = Pow24 THEN 151 - ns[2] ELSE 150 - ns[2]
         IN  InRange(den < 128 /\ a < Pow24 * den /\ e3 >= 1,
                     float(IF num < 0 THEN 1 ELSE 0, e3, q3 - Pow23))

\* The square root of a perfect square below 128 * 128.
ISqrt(n) == CHOOSE r \in 0..127 : r * r = n

(***************************************************************************)
(* Geometry primitives                                                     *)
(***************************************************************************)
Vec3(x, y, z) == [x |-> x, y |-> y, z |-> z]

\* Triangle{}: value-initialised.
Triangle0 ==
    [normal |-> Vec3(FZero, FZero, FZero),
     v |-> <<Vec3(FZero, FZero, FZero), Vec3(FZero, FZero, FZero), Vec3(FZero, FZero, FZero)>>]

Mesh0 == [name |-> <<>>, tris |-> <<>>]

\* A float that holds an integer, as the integer n and the sign bit neg
\* (which tells -0 from +0).
SVal(f) == [n |-> FToInt(f), neg |-> f.s = 1]

RECURSIVE UnitOf(_, _)
\* The spacing of the floats around the whole number a >= 0: the least power
\* of two u, from u up, with a < 2^24 * u.
UnitOf(a, u) == IF a \div u < Pow24 THEN u ELSE UnitOf(a, 2 * u)

\* The float nearest to the whole number a >= 0, ties to even.
RoundToFloat(a) ==
    LET u == UnitOf(a, 1)
        q == a \div u
        r == a % u
    IN  IF 2 * r > u \/ (2 * r = u /\ q % 2 = 1) THEN (q + 1) * u ELSE q * u

\* The float nearest to the whole number n.
Rounded(n) == IF n < 0 THEN 0 - RoundToFloat(0 - n) ELSE RoundToFloat(n)

\* a - b in float arithmetic: the difference rounded to a float; an exact
\* zero is -0 only for (-0) - (+0).
SSub(a, b) ==
    [n |-> Rounded(a.n - b.n),
     neg |-> IF a.n # b.n THEN a.n < b.n ELSE a.n = 0 /\ a.neg /\ ~b.neg]

\* a * b in float arithmetic: the product rounded to a float.
SMul(a, b) == [n |-> Rounded(a.n * b.n), neg |-> a.neg # b.neg]

\* a / len in float arithmetic, for len > 0.
SDiv(a, len) ==
    IF a.n = 0 THEN float(IF a.neg THEN 1 ELSE 0, 0, 0) ELSE QToF(a.n, len)

\* The lambda sub.
sub(a, b) ==
    [x |-> SSub(SVal(a.x), SVal(b.x)),
     y |-> SSub(SVal(a.y), SVal(b.y)),
     z |-> SSub(SVal(a.z), SVal(b.z))]

\* The lambda cross with its operands exchanged.
cross_Exchanged(a, b) ==
    [x |-> SSub(SMul(b.y, a.z), SMul(b.z, a.y)),
     y |-> SSub(SMul(b.z, a.x), SMul(b.x, a.z)),
     z |-> SSub(SMul(b.x, a.y), SMul(b.y, a.x))]

\* The lambda cross.
cross(a, b) ==
    [x |-> SSub(SMul(a.y, b.z), SMul(a.z, b.y)),
     y |-> SSub(SMul(a.z, b.x), SMul(a.x, b.z)),
     z |-> SSub(SMul(a.x, b.y), SMul(a.y, b.x))]

\* len, for a cross product whose length is a whole number: every product
\* and every sum rounded to a float.
LenOf(n) ==
    ISqrt(Rounded(Rounded(Rounded(n.x.n * n.x.n) + Rounded(n.y.n * n.y.n))
                  + Rounded(n.z.n * n.z.n)))

\* if (len > 0.0f) { n.x/=len; n.y/=len; n.z/=len; } return n;
DivideBy(n, len) ==
    IF len > 0 THEN Vec3(SDiv(n.x, len), SDiv(n.y, len), SDiv(n.z, len))
    ELSE Vec3(SDiv(n.x, 1), SDiv(n.y, 1), SDiv(n.z, 1))

\* The rest of face_normal once the cross product n is there.
Normalized(n) == DivideBy(n, LenOf(n))

\* cross(v1 - v0, v2 - v0), divided by its length when that is positive.
face_normal(t) == Normalized(cross(sub(t.v[2], t.v[1]), sub(t.v[3], t.v[1])))

\* The literal 1e-20f.
NormalEps == float(0, 60, 3990792)

\* std::abs(n.x) + std::abs(n.y) + std::abs(n.z) < 1e-20f
normal_is_missing(n) ==
    FLessNonNeg(FAddNonNeg(FAddNonNeg(fabs(n.x), fabs(n.y)), fabs(n.z)), NormalEps)

(***************************************************************************)
(* std::from_chars for float (chars_format::general)                       *)
(***************************************************************************)
RECURSIVE DigitsEnd(_, _)
\* Index one past the run of decimal digits of sv starting at i.
DigitsEnd(sv, i) ==
    IF i <= Len(sv) /\ isdigit(sv[i]) THEN DigitsEnd(sv, i + 1) ELSE i

RECURSIVE DigitsVal(_, _, _)
\* The number written by the digits sv[i..j-1] (0 for none).
DigitsVal(sv, i, j) ==
    IF j <= i THEN 0 ELSE 10 * DigitsVal(sv, i, j - 1) + (sv[j - 1] - 48)

RECURSIVE GCD(_, _)
GCD(a, b) == IF b = 0 THEN a ELSE GCD(b, a % b)

RECURSIVE DecToF(_, _, _)
\* The float nearest to (-1)^neg * d * 10^x, or "range" where from_chars
\* reports result_out_of_range.
DecToF(neg, d, x) ==
    IF d = 0 THEN [range |-> FALSE, v |-> float(IF neg THEN 1 ELSE 0, 0, 0)]
    ELSE IF d % 10 = 0 THEN DecToF(neg, d \div 10, x + 1)
    ELSE IF x >= 39 \/ x <= -56 THEN [range |-> TRUE, v |-> FZero]
    ELSE IF x >= 0
         THEN [range |-> FALSE,
               v |-> InRange(x <= 7, QToF((IF neg THEN 0 - d ELSE d) * (10 ^ x), 1))]
    ELSE LET den == InRange(x >= -9, 10 ^ (0 - x))
             g   == GCD(d, den)
         IN  [range |-> FALSE, v |-> QToF((IF neg THEN 0 - d ELSE d) \div g, den \div g)]

isalnum_(c) == isdigit(c) \/ (tolower(c) >= 97 /\ tolower(c) <= 122) \/ c = 95

\* [ok, v, len]: whether a float was matched at the front of sv, its value, and
\* how many bytes the match took (ptr - first).
from_chars(sv) ==
    LET n    == Len(sv)
        neg  == n >= 1 /\ sv[1] = 45
        i1   == IF neg THEN 2 ELSE 1
        low  == [k \in 1..(n - i1 + 1) |-> tolower(sv[i1 + k - 1])]
        pre(w) == Len(low) >= Len(w) /\ SubSeq(low, 1, Len(w)) = w
        a    == DigitsEnd(sv, i1)
        dot  == a <= n /\ sv[a] = 46
        b    == IF dot THEN DigitsEnd(sv, a + 1) ELSE a
        nfr  == IF dot THEN b - a - 1 ELSE 0
        hasE == b <= n /\ tolower(sv[b]) = 101
        c1   == IF hasE /\ b + 1 <= n /\ (sv[b + 1] = 43 \/ sv[b + 1] = 45) THEN b + 2 ELSE b + 1
        c2   == IF hasE THEN DigitsEnd(sv, c1) ELSE b
        useE == hasE /\ c2 > c1
        ex   == IF ~useE THEN 0
                ELSE IF sv[b + 1] = 45 THEN 0 - DigitsVal(sv, c1, c2) ELSE DigitsVal(sv, c1, c2)
        last == IF useE THEN c2 ELSE b
        d    == DigitsVal(sv, i1, a) * (10 ^ nfr) + (IF dot THEN DigitsVal(sv, a + 1, b) ELSE 0)
        dec  == DecToF(neg, d, ex - nfr)
        sgn  == IF neg THEN 1 ELSE 0
    IN  IF pre(<<105, 110, 102, 105, 110, 105, 116, 121>>)
             THEN [ok |-> TRUE, v |-> FInf(sgn), len |-> i1 + 7]
        ELSE IF pre(<<105, 110, 102>>)
             THEN [ok |-> TRUE, v |-> FInf(sgn), len |-> i1 + 2]
        ELSE IF pre(<<110, 97, 110>>)
             THEN LET RECURSIVE Seq_(_)
                      Seq_(k) == IF k <= Len(low) /\ isalnum_(low[k]) THEN Seq_(k + 1) ELSE k
                      k == IF Len(low) >= 4 /\ low[4] = 40 THEN Seq_(5) ELSE 0
                  IN  IF k > 0 /\ k <= Len(low) /\ low[k] = 41
                      THEN [ok |-> TRUE, v |-> [FNaN EXCEPT !.s = sgn], len |-> i1 + k - 1]
                      ELSE [ok |-> TRUE, v |-> [FNaN EXCEPT !.s = sgn], len |-> i1 + 2]
        ELSE IF (a - i1) + nfr = 0 THEN [ok |-> FALSE, v |-> FZero, len |-> 0]
        ELSE IF dec.range THEN [ok |-> FALSE, v |-> FZero, len |-> last - 1]
        ELSE [ok |-> TRUE, v |-> dec.v, len |-> last - 1]

(***************************************************************************)
(* ASCII parse: the local lambdas                                          *)
(***************************************************************************)
\* The least and the greatest element of a non-empty set of integers.
MinOf(S) == CHOOSE k \in S : \A j \in S : k <= j

MaxOf(S) == CHOOSE k \in S : \A j \in S : k >= j

\* Index of the first non-space byte of sv at or after i (Len(sv)+1 if none).
SkipFront(sv, i) ==
    LET S == {k \in i..Len(sv) : ~isspace(sv[k])}
    IN  IF S = {} THEN Len(sv) + 1 ELSE MinOf(S)

\* Index of the last non-space byte of sv in lo..j (lo - 1 if none).
SkipBack(sv, lo, j) ==
    LET S == {k \in lo..j : ~isspace(sv[k])}
    IN  IF S = {} THEN lo - 1 ELSE MaxOf(S)

trim_sv(sv) ==
    LET i == SkipFront(sv, 1)
        j == SkipBack(sv, i, Len(sv))
    IN  SubSeq(sv, i, j)

\* Index one past the run of non-space bytes of sv starting at j.
TokEnd(sv, j) ==
    LET S == {k \in j..Len(sv) : isspace(sv[k])}
    IN  IF S = {} THEN Len(sv) + 1 ELSE MinOf(S)

RECURSIVE TokensFrom(_, _)
TokensFrom(sv, i) ==
    LET a == SkipFront(sv, i)
    IN  IF a > Len(sv) THEN <<>>
        ELSE LET b == TokEnd(sv, a)
             IN  <<SubSeq(sv, a, b - 1)>> \o TokensFrom(sv, b)

tokenize_ws(sv) == TokensFrom(trim_sv(sv), 1)

\* The comparison made byte for byte.
eq_ci_CaseSensitive(a, b_lc) == a = b_lc

\* a (any case) against b_lc (lowercase): same length, same bytes after tolower.
eq_ci(a, b_lc) ==
    /\ Len(a) = Len(b_lc)
    /\ \A i \in 1..Len(a) : tolower(a[i]) = b_lc[i]

RECURSIVE JoinFrom(_, _, _)
JoinFrom(toks, start, i) ==
    IF i > Len(toks) THEN <<>>
    ELSE (IF i > start THEN <<32>> ELSE <<>>) \o toks[i] \o JoinFrom(toks, start, i + 1)

\* toks[start..] joined by single spaces (start is 1-based here).
join_name(toks, start) == JoinFrom(toks, start, start)

RECURSIVE SplitFrom(_, _)
SplitFrom(text, i) ==
    LET S == {k \in i..Len(text) : text[k] = NL}
        j == IF S = {} THEN Len(text) + 1 ELSE MinOf(S)
    IN  IF j > Len(text) THEN <<SubSeq(text, i, Len(text))>>
        ELSE <<SubSeq(text, i, j - 1)>> \o SplitFrom(text, j + 1)

\* text | std::views::split(NL): no piece for an empty text, otherwise one
\* piece per newline plus the final piece (empty when the text ends in one).
SplitLines(text) == IF Len(text) = 0 THEN <<>> ELSE SplitFrom(text, 1)

\* readf_check that takes a token of which from_chars read a part.
readf_check_Partial(sv, r) ==
    IF r.ok THEN [ok |-> TRUE, v |-> r.v]
    ELSE [ok |-> FALSE, error |-> <<"Failed to parse number: '", sv, "'">>]

\* readf: the whole token must be one float.
\* The test on the result r of from_chars in readf.
readf_check(sv, r) ==
    IF r.ok /\ r.len = Len(sv) THEN [ok |-> TRUE, v |-> r.v]
    ELSE [ok |-> FALSE, error |-> <<"Failed to parse number: '", sv, "'">>]

readf(sv) == readf_check(sv, from_chars(sv))

\* The tests on the three results of readf in three_floats_from.
three_floats_check(fx, fy, fz) ==
    IF ~fx.ok THEN fx
    ELSE IF ~fy.ok THEN fy
    ELSE IF ~fz.ok THEN fz
    ELSE [ok |-> TRUE, v |-> Vec3(fx.v, fy.v, fz.v)]

\* The floats of toks[start], toks[start+1], toks[start+2] (start is 1-based).
three_floats_from(toks, start) ==
    IF Len(toks) < start + 2 THEN [ok |-> FALSE, error |-> <<"Expected three floats">>]
    ELSE three_floats_check(readf(toks[start]), readf(toks[start + 1]),
                            readf(toks[start + 2]))

(***************************************************************************)
(* ASCII parse: the locals of one call, the loop body and the epilogue     *)
(***************************************************************************)
KwSolid == B("solid")

KwEndsolid == B("endsolid")

KwFacet == B("facet")

KwNormal == B("normal")

KwOuter == B("outer")

KwLoop == B("loop")

KwVertex == B("vertex")

KwEndloop == B("endloop")

KwEndfacet == B("endfacet")

Phases == {"idle", "have_facet", "in_loop", "have_v1", "have_v2"}

NoResult == [kind |-> "none"]

Unexpected(msg) == [kind |-> "error", error |-> msg]

Expected(m) == [kind |-> "mesh", mesh |-> m]

\* The locals at entry to the loop.  pc is "loop" while the for loop runs,
\* "after_loop" once it has ended (break or end of text) and "returned" after
\* a return; result is what was returned.
ParseEntry ==
    [in_solid |-> FALSE, current |-> Triangle0, phase |-> "idle", vertex_count |-> 0,
     line_no |-> 0, mesh |-> Mesh0, pc |-> "loop", result |-> NoResult]

Return(f, r) == [f EXCEPT !.pc = "returned", !.result = r]

LineError(f, msg) == Return(f, Unexpected(<<"Line ", f.line_no, ": ">> \o msg))

\* Header with the keyword matched as a prefix of the first token.
HeaderPrefix(f, toks) ==
    IF ~(Len(toks[1]) >= 5 /\ eq_ci(SubSeq(toks[1], 1, 5), KwSolid))
    THEN LineError(f, <<"expected 'solid'">>)
    ELSE [f EXCEPT !.mesh.name = IF Len(toks) > 1 THEN join_name(toks, 2) ELSE <<>>,
                   !.in_solid = TRUE]

\* The header branch (not yet in a solid): solid [name...]
Header(f, toks) ==
    IF ~eq_ci(toks[1], KwSolid) THEN LineError(f, <<"expected 'solid'">>)
    ELSE [f EXCEPT !.mesh.name = IF Len(toks) > 1 THEN join_name(toks, 2) ELSE <<>>,
                   !.in_solid = TRUE]

\* EndSolid without the break: the loop goes on to the next line.
EndSolidContinue(f) == [f EXCEPT !.in_solid = FALSE]

\* The endsolid branch: leave the solid and break out of the loop.
EndSolid(f) == [f EXCEPT !.in_solid = FALSE, !.pc = "after_loop"]

\* The facet branch once the three numbers arr have been read.
FacetStore(f, arr) ==
    IF ~arr.ok THEN LineError(f, arr.error)
    ELSE [f EXCEPT !.current.normal = arr.v, !.phase = "have_facet"]

\* The facet branch: facet normal i j k
Facet(f, toks) ==
    IF Len(toks) < 2 \/ ~eq_ci(toks[2], KwNormal)
    THEN LineError(f, <<"'facet' where not expected">>)
    ELSE IF f.phase # "idle" THEN LineError(f, <<"'facet' where not expected">>)
    ELSE FacetStore(f, three_floats_from(toks, 3))

\* The outer branch that leaves the vertex counter as it is.
OuterLoopKeepsCount(f, toks, line_trim) ==
    IF Len(toks) < 2 \/ ~eq_ci(toks[2], KwLoop)
    THEN LineError(f, <<"unexpected content: '", line_trim, "'">>)
    ELSE IF f.phase # "have_facet" THEN LineError(f, <<"'outer loop' without facet">>)
    ELSE [f EXCEPT !.phase = "in_loop"]

\* The outer branch: outer loop
OuterLoop(f, toks, line_trim) ==
    IF Len(toks) < 2 \/ ~eq_ci(toks[2], KwLoop)
    THEN LineError(f, <<"unexpected content: '", line_trim, "'">>)
    ELSE IF f.phase # "have_facet" THEN LineError(f, <<"'outer loop' without facet">>)
    ELSE [f EXCEPT !.phase = "in_loop", !.vertex_count = 0]

\* VertexStore without the limit of three: a further vertex replaces the
\* third.
VertexStoreNoLimit(f, arr) ==
    IF ~arr.ok THEN LineError(f, arr.error)
    ELSE IF f.vertex_count = 0
         THEN [f EXCEPT !.current.v[1] = arr.v, !.phase = "have_v1", !.vertex_count = 1]
    ELSE IF f.vertex_count = 1
         THEN [f EXCEPT !.current.v[2] = arr.v, !.phase = "have_v2", !.vertex_count = 2]
    ELSE [f EXCEPT !.current.v[3] = arr.v, !.vertex_count = 3]

\* The vertex branch once the three numbers arr have been read.
VertexStore(f, arr) ==
    IF ~arr.ok THEN LineError(f, arr.error)
    ELSE IF f.vertex_count = 0
         THEN [f EXCEPT !.current.v[1] = arr.v, !.phase = "have_v1", !.vertex_count = 1]
    ELSE IF f.vertex_count = 1
         THEN [f EXCEPT !.current.v[2] = arr.v, !.phase = "have_v2", !.vertex_count = 2]
    ELSE IF f.vertex_count = 2
         THEN [f EXCEPT !.current.v[3] = arr.v, !.vertex_count = 3]
    ELSE LineError(f, <<"too many vertices in loop">>)

\* The vertex branch: vertex x y z
Vertex(f, toks) ==
    IF f.phase \notin {"in_loop", "have_v1", "have_v2"}
    THEN LineError(f, <<"'vertex' outside of loop">>)
    ELSE VertexStore(f, three_floats_from(toks, 2))

\* The endloop branch.
EndLoop(f) ==
    IF f.vertex_count # 3 THEN LineError(f, <<"'endloop' before three vertices">>)
    ELSE f

\* EndFacet that puts the closed triangle in front of the earlier ones.
EndFacetPrepend(f, compute_missing_normals) ==
    IF f.vertex_count # 3 \/ f.phase # "have_v2"
    THEN LineError(f, <<"'endfacet' without complete triangle">>)
    ELSE LET cur == IF compute_missing_normals /\ normal_is_missing(f.current.normal)
                    THEN [f.current EXCEPT !.normal = face_normal(f.current)]
                    ELSE f.current
         IN  [f EXCEPT !.mesh.tris = <<cur>> \o @, !.current = Triangle0, !.phase = "idle"]

\* The endfacet branch.
EndFacet(f, compute_missing_normals) ==
    IF f.vertex_count # 3 \/ f.phase # "have_v2"
    THEN LineError(f, <<"'endfacet' without complete triangle">>)
    ELSE LET cur == IF compute_missing_normals /\ normal_is_missing(f.current.normal)
                    THEN [f.current EXCEPT !.normal = face_normal(f.current)]
                    ELSE f.current
         IN  [f EXCEPT !.mesh.tris = Append(@, cur), !.current = Triangle0, !.phase = "idle"]

\* A solid line inside the solid that also starts over the facet.
SolidAgainRestarts(f, toks) ==
    [f EXCEPT !.mesh.name = IF Len(toks) > 1 THEN join_name(toks, 2) ELSE <<>>,
              !.phase = "idle", !.vertex_count = 0]

\* The branch for a solid line inside the solid.
SolidAgain(f, toks) ==
    [f EXCEPT !.mesh.name = IF Len(toks) > 1 THEN join_name(toks, 2) ELSE <<>>]

\* The loop body that skips a line it does not recognize.
LineBranchSkips(f, line_trim, toks, compute_missing_normals) ==
    IF Len(line_trim) = 0 THEN f
        ELSE IF Len(toks) = 0 THEN f
        ELSE IF ~f.in_solid THEN Header(f, toks)
        ELSE IF eq_ci(toks[1], KwEndsolid) THEN EndSolid(f)
        ELSE IF eq_ci(toks[1], KwFacet) THEN Facet(f, toks)
        ELSE IF eq_ci(toks[1], KwOuter) THEN OuterLoop(f, toks, line_trim)
        ELSE IF eq_ci(toks[1], KwVertex) THEN Vertex(f, toks)
        ELSE IF eq_ci(toks[1], KwEndloop) THEN EndLoop(f)
        ELSE IF eq_ci(toks[1], KwEndfacet) THEN EndFacet(f, compute_missing_normals)
        ELSE IF eq_ci(toks[1], KwSolid) THEN SolidAgain(f, toks)
        ELSE f

\* The body of the loop once the line is trimmed and split into tokens: the
\* empty-line tests and the branch on the first token.
LineBranch(f, line_trim, toks, compute_missing_normals) ==
    IF Len(line_trim) = 0 THEN f
        ELSE IF Len(toks) = 0 THEN f
        ELSE IF ~f.in_solid THEN Header(f, toks)
        ELSE IF eq_ci(toks[1], KwEndsolid) THEN EndSolid(f)
        ELSE IF eq_ci(toks[1], KwFacet) THEN Facet(f, toks)
        ELSE IF eq_ci(toks[1], KwOuter) THEN OuterLoop(f, toks, line_trim)
        ELSE IF eq_ci(toks[1], KwVertex) THEN Vertex(f, toks)
        ELSE IF eq_ci(toks[1], KwEndloop) THEN EndLoop(f)
        ELSE IF eq_ci(toks[1], KwEndfacet) THEN EndFacet(f, compute_missing_normals)
        ELSE IF eq_ci(toks[1], KwSolid) THEN SolidAgain(f, toks)
        ELSE LineError(f, <<"unexpected content: '", line_trim, "'">>)

\* One iteration of the for loop over the lines, from ++line_no to its
\* continue, break or return.
LoopBody(f0, line, compute_missing_normals) ==
    LineBranch([f0 EXCEPT !.line_no = @ + 1], trim_sv(line), tokenize_ws(trim_sv(line)),
               compute_missing_normals)

\* Epilogue without the check for an open facet.
EpilogueNoCheck(f) == Return(f, Expected(f.mesh))

\* After the loop: the end-of-input check and the final return.
Epilogue(f) ==
    IF f.in_solid /\ f.phase # "idle"
    THEN Return(f, Unexpected(<<"Unexpected EOF: unterminated facet/loop">>))
    ELSE Return(f, Expected(f.mesh))

RECURSIVE RunLines(_, _, _, _)
\* The for loop over lines[i..]: it stops at the first break or return.
RunLines(f, lines, i, compute_missing_normals) ==
    IF f.pc # "loop" \/ i > Len(lines) THEN f
    ELSE RunLines(LoopBody(f, lines[i], compute_missing_normals), lines, i + 1,
                  compute_missing_normals)

\* The locals when the call returns, from the locals f the loop ended with.
AfterLines(f) == IF f.pc = "returned" THEN f ELSE Epilogue(f)

\* ASCII::parse(std::string_view text, bool compute_missing_normals): the
\* locals when the call returns.
ParseFrame(text, compute_missing_normals) ==
    AfterLines(RunLines(ParseEntry, SplitLines(text), 1, compute_missing_normals))

\* What ASCII::parse returns.
ascii_parse(text, compute_missing_normals) ==
    ParseFrame(text, compute_missing_normals).result

(***************************************************************************)
(* ASCII::serialize(mesh, float_precision).  A float is printed as         *)
(* std::format prints it with the format {:.pf}: its exact value rounded   *)
(* to p decimals, ties to even.  The rounding is computed through exact    *)
(* integers; a value with more than 27 fraction bits that does not round   *)
(* to zero, or too large for the integers of the model, is outside the     *)
(* range and evaluation stops.                                             *)
(***************************************************************************)
RECURSIVE Pow10(_)
Pow10(n) == IF n = 0 THEN 1 ELSE 10 * Pow10(n - 1)

RECURSIVE Pow2(_)
Pow2(n) == IF n = 0 THEN 1 ELSE 2 * Pow2(n - 1)

RECURSIVE DigitsOf(_, _)
\* The decimal digits of n, at least w of them.
DigitsOf(n, w) ==
    IF n < 10 /\ w <= 1 THEN <<48 + n>>
    ELSE DigitsOf(n \div 10, w - 1) \o <<48 + (n % 10)>>

RECURSIVE Reduce(_, _)
\* num / 2^k in lowest terms.
Reduce(num, k) ==
    IF k > 0 /\ num % 2 = 0 THEN Reduce(num \div 2, k - 1) ELSE <<num, k>>

RECURSIVE DecDigits(_, _, _, _)
\* <<acc * 10^p + floor(r * 10^p / d), the remainder>>, one decimal at a time.
DecDigits(acc, r, d, p) ==
    IF p = 0 THEN <<acc, r>>
    ELSE DecDigits(10 * acc + ((10 * r) \div d), (10 * r) % d, d, p - 1)

\* The quotient qr[1] with remainder qr[2] of a division by d, rounded to an
\* integer, ties to even.
RoundTail(qr, d) ==
    IF 2 * qr[2] > d \/ (2 * qr[2] = d /\ qr[1] % 2 = 1) THEN qr[1] + 1 ELSE qr[1]

\* num / d * 10^p rounded to an integer, ties to even.
ScaledFrac(num, d, p) == RoundTail(DecDigits(num \div d, num % d, d, p), d)

\* |f| * 10^p rounded to an integer, for a finite f.
ScaledRound(f, p) ==
    LET sh == Exp(f) - 150
    IN  IF Sig(f) = 0 THEN 0
        ELSE IF sh >= 0
        THEN InRange(sh <= 7 /\ Sig(f) * Pow2(sh) <= 2147483647 \div Pow10(p),
                     Sig(f) * Pow2(sh) * Pow10(p))
        ELSE IF 24 + sh <= 0 - (4 * p + 1) THEN 0
        ELSE LET nk == Reduce(Sig(f), 0 - sh)
             IN  InRange(nk[2] <= 27
                           /\ nk[1] \div Pow2(nk[2]) < 2147483647 \div Pow10(p),
                         ScaledFrac(nk[1], Pow2(nk[2]), p))

\* std::vformat of {:.pf} with one float.
FormatFixed(f, p) ==
    LET sign == IF f.s = 1 THEN B("-") ELSE <<>>
    IN  IF IsNaN(f) THEN sign \o B("nan")
        ELSE IF f.e = 255 THEN sign \o B("inf")
        ELSE LET q == ScaledRound(f, p)
             IN  sign \o DigitsOf(q \div Pow10(p), 1)
                      \o (IF p = 0 THEN <<>> ELSE B(".") \o DigitsOf(q % Pow10(p), p))

\* The lambda fmt3.
fmt3(v, p) ==
    FormatFixed(v.x, p) \o B(" ") \o FormatFixed(v.y, p) \o B(" ") \o FormatFixed(v.z, p)

\* The text of one facet.
FacetText(t, p) ==
    LET n == IF normal_is_missing(t.normal) THEN face_normal(t) ELSE t.normal
    IN  B("  facet normal ") \o fmt3(n, p) \o <<NL>>
        \o B("    outer loop") \o <<NL>>
        \o B("      vertex ") \o fmt3(t.v[1], p) \o <<NL>>
        \o B("      vertex ") \o fmt3(t.v[2], p) \o <<NL>>
        \o B("      vertex ") \o fmt3(t.v[3], p) \o <<NL>>
        \o B("    endloop") \o <<NL>>
        \o B("  endfacet") \o <<NL>>

RECURSIVE FacetsText(_, _, _)
\* The text of the facets tris[k..].
FacetsText(tris, k, p) ==
    IF k > Len(tris) THEN <<>> ELSE FacetText(tris[k], p) \o FacetsText(tris, k + 1, p)

\* ASCII::serialize(mesh, float_precision), for a precision that is not
\* negative.
ascii_serialize(mesh, float_precision) ==
    InRange(float_precision >= 0,
            B("solid ") \o mesh.name \o <<NL>>
              \o FacetsText(mesh.tris, 1, float_precision)
              \o B("endsolid ") \o mesh.name \o <<NL>>)

(***************************************************************************)
(* Streams.  An input stream is its bytes, its read position and its state *)
(* bits (fail stands for failbit or badbit), and whether its buffer can    *)
(* tell and seek (a string or a file can, a pipe cannot).  An output       *)
(* stream is the bytes the sink holds, its bad bit and the number of bytes *)
(* the sink can take (-1: no limit).                                       *)
(***************************************************************************)
\* A std::istringstream over data, at its start.
IStream(data) ==
    [data |-> data, pos |-> 0, fail |-> FALSE, eofbit |-> FALSE, seekable |-> TRUE]

OStream(limit) == [data |-> <<>>, bad |-> FALSE, limit |-> limit]

\* std::istream::read(buf, n): the stream afterwards and the bytes stored.
\* got is what gcount() counts.
read(is, n) ==
    IF is.fail \/ is.eofbit
    THEN [is |-> [is EXCEPT !.fail = TRUE], got |-> <<>>]
    ELSE IF Len(is.data) - is.pos >= n
    THEN [is |-> [is EXCEPT !.pos = @ + n],
          got |-> SubSeq(is.data, is.pos + 1, is.pos + n)]
    ELSE [is |-> [is EXCEPT !.pos = Len(is.data), !.fail = TRUE, !.eofbit = TRUE],
          got |-> SubSeq(is.data, is.pos + 1, Len(is.data))]

\* read_exact(is, buf) for a buffer of n bytes: the loop makes no read when
\* the buffer is empty.
read_exact(is, n) ==
    IF n = 0 THEN [ok |-> TRUE, is |-> is, buf |-> <<>>]
    ELSE LET r == read(is, n)
         IN  [ok |-> ~r.is.fail, is |-> r.is, buf |-> r.got]

\* std::ostream::write(buf, n): a sink that is full takes what fits and the
\* stream turns bad.
write(os, buf) ==
    IF os.bad THEN os
    ELSE IF os.limit < 0 \/ Len(os.data) + Len(buf) <= os.limit
    THEN [os EXCEPT !.data = @ \o buf]
    ELSE [os EXCEPT !.data = @ \o SubSeq(buf, 1, os.limit - Len(os.data)), !.bad = TRUE]

\* write_exact(os, buf).
write_exact(os, buf) ==
    LET o == write(os, buf)
    IN  [ok |-> ~o.bad, os |-> o]

(***************************************************************************)
(* Little-endian loads and stores.                                         *)
(***************************************************************************)
\* load_le<std::uint32_t>; counts from 2^31 on are outside the integers of
\* the model.
load_le_u32(b) ==
    InRange(b[4] < 128, b[1] + 256 * b[2] + 65536 * b[3] + Pow24 * b[4])

\* load_le<float>.
load_le_float(b) ==
    float(b[4] \div 128, (b[4] % 128) * 2 + b[3] \div 128,
          (b[3] % 128) * 65536 + b[2] * 256 + b[1])

\* store_le<std::uint32_t>.
store_le_u32(n) ==
    <<n % 256, (n \div 256) % 256, (n \div 65536) % 256, (n \div Pow24) % 256>>

\* store_le<std::uint16_t> with the high byte first.
store_le_u16_HighFirst(n) == <<(n \div 256) % 256, n % 256>>

\* store_le<std::uint16_t>.
store_le_u16(n) == <<n % 256, (n \div 256) % 256>>

\* store_le<float> without the low bit of the exponent.
store_le_float_NoLowExp(f) ==
    <<f.m % 256, (f.m \div 256) % 256, f.m \div 65536, f.s * 128 + f.e \div 2>>

\* store_le<float>.
store_le_float(f) ==
    <<f.m % 256, (f.m \div 256) % 256, (f.e % 2) * 128 + f.m \div 65536,
      f.s * 128 + f.e \div 2>>

(***************************************************************************)
(* Binary::parse(std::istream&, bool), step by step.  A step takes the     *)
(* stream and the locals b and gives both back.                            *)
(***************************************************************************)
\* The locals at entry.
BinEntry ==
    [pc |-> "header", header |-> <<>>, triCount |-> 0, mesh |-> Mesh0, i |-> 0,
     result |-> NoResult]

\* What the call ends in when an exception leaves it.
Thrown(what) == [kind |-> "exception", what |-> what]

RECURSIVE find_last_not_of_SpacesOnly(_, _)
\* find_last_not_of with the set that holds the space only.
find_last_not_of_SpacesOnly(name, j) ==
    IF j = 0 THEN 0
    ELSE IF name[j] = 32 THEN find_last_not_of_SpacesOnly(name, j - 1)
    ELSE j

RECURSIVE find_last_not_of(_, _)
\* name.find_last_not_of with the set NUL, space, tab, CR, LF, from index j
\* down; 0 stands for npos.
find_last_not_of(name, j) ==
    IF j = 0 THEN 0
    ELSE IF name[j] \in {0, 32, 9, 13, 10} THEN find_last_not_of(name, j - 1)
    ELSE j

\* The header read.
BinReadHeader(is, b) ==
    LET r == read_exact(is, 80)
    IN  IF ~r.ok
        THEN [is |-> r.is,
              b |-> Return(b, Unexpected(<<"Binary STL: failed to read 80-byte header">>))]
        ELSE [is |-> r.is, b |-> [b EXCEPT !.header = r.buf, !.pc = "count"]]

\* The count read and the mesh name taken from the header.
BinReadCount(is, b) ==
    LET r == read_exact(is, 4)
    IN  IF ~r.ok
        THEN [is |-> r.is,
              b |-> Return(b, Unexpected(<<"Binary STL: failed to read triangle count">>))]
        ELSE LET pos == find_last_not_of(b.header, 80)
             IN  [is |-> r.is,
                  b |-> [b EXCEPT !.triCount = load_le_u32(r.buf),
                                  !.mesh.name = SubSeq(b.header, 1, pos),
                                  !.pc = "reserve"]]

\* mesh.tris.reserve(triCount): granted says whether the allocator gave the
\* storage; reserve(0) asks for none.
BinReserve(b, granted) ==
    IF granted \/ b.triCount = 0 THEN [b EXCEPT !.pc = "records", !.i = 0]
    ELSE Return(b, Thrown("std::bad_alloc"))

\* The float at index idx (from 0) of a record.
RecFloat(rec, idx) == load_le_float(SubSeq(rec, idx * 4 + 1, idx * 4 + 4))

\* The triangle of a record.
RecTriangle(rec) ==
    [normal |-> Vec3(RecFloat(rec, 0), RecFloat(rec, 1), RecFloat(rec, 2)),
     v |-> <<Vec3(RecFloat(rec, 3), RecFloat(rec, 4), RecFloat(rec, 5)),
             Vec3(RecFloat(rec, 6), RecFloat(rec, 7), RecFloat(rec, 8)),
             Vec3(RecFloat(rec, 9), RecFloat(rec, 10), RecFloat(rec, 11))>>]

\* The rest of the loop body once the record has been read with outcome r.
BinStore(b, r) ==
    IF ~r.ok
    THEN [is |-> r.is,
          b |-> Return(b, Unexpected(<<"Binary STL: unexpected EOF in triangle data">>))]
    ELSE [is |-> r.is,
          b |-> [b EXCEPT !.mesh.tris = Append(@, r.t), !.i = @ + 1]]

\* The completion made whether asked for or not.
CompletedAlways(t0, compute_missing_normals) ==
    IF normal_is_missing(t0.normal) THEN [t0 EXCEPT !.normal = face_normal(t0)] ELSE t0

\* The triangle t0 of a record, with its normal completed when asked for.
Completed(t0, compute_missing_normals) ==
    IF compute_missing_normals /\ normal_is_missing(t0.normal)
    THEN [t0 EXCEPT !.normal = face_normal(t0)]
    ELSE t0

\* The read of one record: the outcome of read_exact and the triangle.
BinRead(r, compute_missing_normals) ==
    IF ~r.ok THEN [ok |-> FALSE, is |-> r.is]
    ELSE [ok |-> TRUE, is |-> r.is, t |-> Completed(RecTriangle(r.buf), compute_missing_normals)]

\* The loop reading the twelve floats of a record and not its attribute bytes.
BinRecord_FloatsOnly(is, b, compute_missing_normals) ==
    IF b.i >= b.triCount THEN [is |-> is, b |-> Return(b, Expected(b.mesh))]
    ELSE BinStore(b, BinRead(read_exact(is, 48), compute_missing_normals))

\* One test of the loop condition and, when it holds, one record.
BinRecord(is, b, compute_missing_normals) ==
    IF b.i >= b.triCount THEN [is |-> is, b |-> Return(b, Expected(b.mesh))]
    ELSE BinStore(b, BinRead(read_exact(is, 50), compute_missing_normals))

(***************************************************************************)
(* Binary::serialize(os, mesh, header, attribute_byte_count), step by      *)
(* step.  w holds the position in the function and what it returned.       *)
(***************************************************************************)
SerEntry == [pc |-> "header", k |-> 1, result |-> NoResult]

Returned(v) == [kind |-> "bool", value |-> v]

\* The 80 header bytes: the text cut at 80 bytes and padded with zeros.
HeaderBytes(header) ==
    [i \in 1..80 |-> IF i <= Len(header) THEN header[i] ELSE 0]

\* The 50 bytes of the record of t, the triangle with its normal in place.
RecordOf(t, attribute_byte_count) ==
    [i \in 1..48 |->
        store_le_float(<<t.normal.x, t.normal.y, t.normal.z,
                         t.v[1].x, t.v[1].y, t.v[1].z,
                         t.v[2].x, t.v[2].y, t.v[2].z,
                         t.v[3].x, t.v[3].y, t.v[3].z>>[((i - 1) \div 4) + 1])[((i - 1) % 4) + 1]]
      \o store_le_u16(attribute_byte_count)

\* The 50 bytes of the record of triangle tIn.
RecordBytes(tIn, attribute_byte_count) ==
    RecordOf(IF normal_is_missing(tIn.normal)
             THEN [tIn EXCEPT !.normal = face_normal(tIn)]
             ELSE tIn,
             attribute_byte_count)

\* The function going on to the next write after a failed one.
SerAfterWriteGoesOn(w, r, next) == [os |-> r.os, w |-> next]

\* What follows a write with outcome r: on to the step next, or return false.
SerAfterWrite(w, r, next) ==
    [os |-> r.os,
     w |-> IF r.ok THEN next ELSE Return(w, Returned(FALSE))]

\* The header write.
SerHeader(os, w, header) ==
    SerAfterWrite(w, write_exact(os, HeaderBytes(header)), [w EXCEPT !.pc = "count"])

\* The count write.
SerCount(os, w, mesh) ==
    SerAfterWrite(w, write_exact(os, store_le_u32(Len(mesh.tris))),
                  [w EXCEPT !.pc = "records"])

\* One turn of the loop over the triangles, or the return after it.
SerRecord(os, w, mesh, attribute_byte_count) ==
    IF w.k > Len(mesh.tris) THEN [os |-> os, w |-> Return(w, Returned(~os.bad))]
    ELSE SerAfterWrite(w, write_exact(os, RecordBytes(mesh.tris[w.k], attribute_byte_count)),
                       [w EXCEPT !.k = @ + 1])

(***************************************************************************)
(* ASCII::parse(std::istream&, bool) and the autodetecting parse of        *)
(* Parse.cpp.                                                              *)
(***************************************************************************)
\* ASCII::parse(std::istream&, bool): the stream buffer is drained from the
\* read position, whatever the state bits, and the text is parsed.
AsciiStream(is, compute_missing_normals) ==
    LET rest == SubSeq(is.data, is.pos + 1, Len(is.data))
        st   == [is EXCEPT !.pos = Len(is.data)]
    IN  IF is.fail /\ ~is.eofbit
        THEN [is |-> st, text |-> rest,
              frame |-> Return(ParseEntry, Unexpected(<<"I/O error while reading stream">>))]
        ELSE [is |-> st, text |-> rest, frame |-> ParseFrame(rest, compute_missing_normals)]

\* The probe that does not seek back to the position it started at.
AutoProbe_NoSeek(is) ==
    LET r == read(is, 6)
    IN  [is |-> [r.is EXCEPT !.fail = FALSE, !.eofbit = FALSE],
         readOk |-> Len(r.got),
         probe |-> r.got]

\* The probe: tellg, read of 6 bytes, gcount, clear, seekg.  tellg gives -1
\* on a stream that is not good (its sentry sets failbit when eofbit is set)
\* and on a stream whose buffer cannot tell; seekg on a buffer that cannot
\* seek sets failbit and leaves the bytes read consumed.
AutoProbe(is) ==
    LET tell == IF is.fail \/ is.eofbit \/ ~is.seekable THEN -1 ELSE is.pos
        pos  == IF tell = -1 THEN 0 ELSE tell
        r    == read(is, 6)
    IN  [is |-> IF is.seekable
                THEN [r.is EXCEPT !.fail = FALSE, !.eofbit = FALSE, !.pos = pos]
                ELSE [r.is EXCEPT !.fail = TRUE, !.eofbit = FALSE],
         readOk |-> Len(r.got),
         probe |-> r.got]

\* The test on the probe made without regard to letter case.
AutoRouteAnyCase(readOk, probe) ==
    IF readOk = 6 /\ [i \in 1..Len(probe) |-> tolower(probe[i])] = B("solid ")
    THEN "ascii" ELSE "binary"

\* The parser the test on the probe selects.
AutoRoute(readOk, probe) ==
    IF readOk = 6 /\ probe = B("solid ") THEN "ascii" ELSE "binary"

(***************************************************************************)
(* The state.                                                              *)
(*                                                                         *)
(* ASCII parse, one step per loop iteration: text is the input as far as   *)
(* it has been laid out (the lines the loop has consumed and, once the     *)
(* call has stopped at a break or a return, the lines that follow in the   *)
(* input and are never read), frame the locals of the call, eof whether    *)
(* the loop ran to the end of the text, extra the number of consumed blank *)
(* lines and solid lines inside the solid, trailing the number of lines    *)
(* laid out after the call stopped.                                        *)
(*                                                                         *)
(* Stream parsing: is is the input stream, auto the locals of the          *)
(* autodetecting parse, bin the locals of Binary::parse.                   *)
(*                                                                         *)
(* Serializing: src is the mesh and the arguments of the call, os the      *)
(* output stream, ser the locals of Binary::serialize or the state of the  *)
(* ASCII::serialize call.                                                  *)
(***************************************************************************)
VARIABLES text, compute_missing_normals, frame, eof, extra, trailing,
          is, auto, bin, src, os, ser

vars == <<text, compute_missing_normals, frame, eof, extra, trailing,
          is, auto, bin, src, os, ser>>

asciiVars == <<text, frame, eof, extra, trailing>>

streamVars == <<is, auto, bin>>

serVars == <<src, os, ser>>

MaxLines == 10

MaxExtra == 1

MaxTrail == 1

MaxFacetLines == 15

MaxCount == 2

MaxRecords == 2

MaxTris == 2

RECURSIVE Unlines(_)
\* The text made of the lines, each followed by a newline.
Unlines(ls) == IF Len(ls) = 0 THEN <<>> ELSE Head(ls) \o <<NL>> \o Unlines(Tail(ls))

\* The lines an input is made of.
Lines ==
    { B("solid a"), B("Solid"), B("solidx y"),
      B("facet normal 0 0 1"), B("outer loop"), B("vertex 1 0 0"), B("vertex 0 0Z 1"),
      B("endloop"), B("endfacet"), B("endsolid a"), B(" "), B("garbage") }

\* The lines laid out after the call has stopped.
TrailLines == { B("facet normal 0 0 1"), B("garbage") }

\* The lines of the well-formed inputs with varied numbers.
FacetLines ==
    { B("solid a"), B("facet normal 0 0 1"), B("facet normal 0 0 0"), B("outer loop"),
      B("vertex 0 0 0"), B("vertex 1 0 0"), B("vertex 0 1 0"),
      B("endloop"), B("endfacet"), B("endsolid a") }

\* The locals of the autodetecting parse at entry.
AutoEntry == [pc |-> "probe", readOk |-> 0, probe |-> <<>>, result |-> NoResult]

\* A call that has not been made.
AutoOff == [AutoEntry EXCEPT !.pc = "off"]

BinOff == [BinEntry EXCEPT !.pc = "off"]

SerOff == [SerEntry EXCEPT !.pc = "off"]

NoSource == [codec |-> "none"]

AsciiIdle ==
    /\ text = <<>>
    /\ frame = ParseEntry
    /\ eof = FALSE
    /\ extra = 0
    /\ trailing = 0

StreamIdle ==
    /\ is = IStream(<<>>)
    /\ auto = AutoOff
    /\ bin = BinOff

SerIdle ==
    /\ src = NoSource
    /\ os = OStream(-1)
    /\ ser = SerOff

InitAscii ==
    /\ compute_missing_normals \in BOOLEAN
    /\ AsciiIdle
    /\ StreamIdle
    /\ SerIdle

\* A line that is blank, or a solid line read inside the solid.
IsExtra(f, line) ==
    LET toks == tokenize_ws(line)
    IN  Len(toks) = 0 \/ (f.in_solid /\ eq_ci(toks[1], KwSolid))

\* The loop takes the next line of the input.
ReadLine(line) ==
    /\ frame.pc = "loop"
    /\ auto.pc = "off"
    /\ src.codec = "none"
    /\ ~eof
    /\ frame' = LoopBody(frame, line, compute_missing_normals)
    /\ extra' = IF IsExtra(frame, line) THEN extra + 1 ELSE extra
    /\ text' = text \o line \o <<NL>>
    /\ UNCHANGED <<compute_missing_normals, eof, trailing, streamVars, serVars>>

\* The input ends here: the loop takes the last piece of the text (the empty
\* piece after the final newline, none for an empty text) and ends.
EndOfText ==
    /\ frame.pc = "loop"
    /\ auto.pc = "off"
    /\ src.codec = "none"
    /\ ~eof
    /\ frame' = [(IF Len(text) = 0 THEN frame
                  ELSE LoopBody(frame, <<>>, compute_missing_normals))
                 EXCEPT !.pc = "after_loop"]
    /\ eof' = TRUE
    /\ UNCHANGED <<text, compute_missing_normals, extra, trailing, streamVars, serVars>>

\* The code after the loop.
AfterLoop ==
    /\ frame.pc = "after_loop"
    /\ frame' = Epilogue(frame)
    /\ UNCHANGED <<text, compute_missing_normals, eof, extra, trailing, streamVars, serVars>>

\* The input goes on after the place where the call stopped reading.
TrailingLine(line) ==
    /\ frame.pc = "returned"
    /\ auto.pc = "off"
    /\ src.codec = "none"
    /\ ~eof
    /\ trailing < MaxTrail
    /\ text' = text \o line \o <<NL>>
    /\ trailing' = trailing + 1
    /\ UNCHANGED <<compute_missing_normals, frame, eof, extra, streamVars, serVars>>

NextAscii ==
    \/ \E line \in Lines :
          /\ frame.line_no < MaxLines
          /\ ReadLine(line)
          /\ extra' <= MaxExtra
    \/ EndOfText
    \/ AfterLoop
    \/ \E line \in TrailLines : TrailingLine(line)

\* Every input of at most MaxLines lines over Lines, read line by line.
Spec == InitAscii /\ [][NextAscii]_vars

\* The last line laid out in the text (empty when there is none).
LastLine(t) ==
    LET ls == SplitLines(t)
    IN  IF Len(ls) < 2 THEN <<>> ELSE ls[Len(ls) - 1]

\* The first token of a line is the keyword kw, in any letter case.
IsKind(line, kw) ==
    LET toks == tokenize_ws(line)
    IN  Len(toks) > 0 /\ eq_ci(toks[1], kw)

NextFacets ==
    \/ \E line \in FacetLines :
          /\ frame.line_no < MaxFacetLines
          /\ IsKind(line, KwEndloop) => IsKind(LastLine(text), KwVertex)
          /\ IsKind(line, KwEndfacet) => IsKind(LastLine(text), KwEndloop)
          /\ IsKind(line, KwEndsolid) => frame.phase = "idle"
          /\ ReadLine(line)
          /\ extra' = 0
          /\ frame'.pc # "returned"
    \/ frame.phase = "idle" /\ EndOfText
    \/ AfterLoop

\* Every input over FacetLines that parse accepts, with exactly one endloop
\* per loop and no repeated solid line.
SpecFacets == InitAscii /\ [][NextFacets]_vars

\* The lines of the inputs whose keyword lines have too few, bad or
\* further tokens.
ShapeLines ==
    { B("solid a"),
      B("facet normal 0 0 1"), B("facet normal 0 0"), B("facet normal 0 1x 2y"),
      B("facet normal 0 0 1 9"),
      B("outer loop"), B("outer loop 5"), B("outer"),
      B("vertex 1 0 0"), B("vertex 1 0"), B("vertex 1e 0Z 1"), B("vertex 1 0 0 7"),
      B("endloop"), B("endloop 5"), B("endfacet"), B("endfacet 5"),
      B("endsolid"), B(" garbage  in ") }

MaxShapeLines == 9

NextShapes ==
    \/ \E line \in ShapeLines :
          /\ frame.line_no < MaxShapeLines
          /\ ReadLine(line)
          /\ extra' = 0
    \/ EndOfText
    \/ AfterLoop

\* Every input of at most MaxShapeLines lines over ShapeLines, read line by
\* line.
SpecShapes == InitAscii /\ [][NextShapes]_vars

(***************************************************************************)
(* Parsing from a stream: Binary::parse called on the stream, or the       *)
(* autodetecting parse.                                                    *)
(***************************************************************************)
F1 == float(0, 127, 0)

F2 == float(0, 128, 0)

F3 == float(0, 128, 4194304)

\* 2^-70, a non-zero number below the threshold 1e-20.
FTiny == float(0, 57, 0)

\* A triangle without a normal.
TriZero ==
    [normal |-> Vec3(FZero, FZero, FZero),
     v |-> <<Vec3(FZero, FZero, FZero), Vec3(F1, FZero, FZero), Vec3(FZero, F1, FZero)>>]

\* A triangle whose normal points against its winding.
TriUp ==
    [normal |-> Vec3(FZero, FZero, F1),
     v |-> <<Vec3(FZero, FZero, FZero), Vec3(FZero, F2, FZero), Vec3(F3, FZero, FZero)>>]

\* A triangle with a non-zero normal below the threshold.
TriTiny ==
    [normal |-> Vec3(FTiny, FZero, FZero),
     v |-> <<Vec3(F1, FZero, FZero), Vec3(F1, F1, FZero), Vec3(FZero, F1, FZero)>>]

Tris == {TriZero, TriUp, TriTiny}

\* The sequences over S of length at most n.
SeqsUpTo(S, n) == UNION {[1..k -> S] : k \in 0..n}

RECURSIVE Records(_, _)
\* The records of the triangles ts[k..], attribute 0.
Records(ts, k) ==
    IF k > Len(ts) THEN <<>> ELSE RecordBytes(ts[k], 0) \o Records(ts, k + 1)

\* A binary file: header, count field and records.
BinaryFile(header, count, ts) ==
    HeaderBytes(header) \o store_le_u32(count) \o Records(ts, 1)

\* The lengths at which a file of n bytes is cut: around the ends of the
\* probe, the header, the count and each record.
Cuts(n) ==
    {k \in 0..n : k \in {0, 5, 6, 79, 80, 83, 84}
                  \/ (k > 84 /\ (k - 84) % 50 \in {0, 1, 49})}

\* The count fields: the small ones and the largest the model can hold.
Counts == 0..MaxCount \cup {2147483647}

BinaryInputs ==
    UNION { { SubSeq(BinaryFile(h, c, ts), 1, k) : k \in Cuts(84 + 50 * Len(ts)) } :
            h \in {B("solid cube"), B("bin ")}, c \in Counts,
            ts \in SeqsUpTo(Tris, MaxRecords) }

TextInputs ==
    { Unlines(ls) : ls \in { <<B("solid a"), B("endsolid a")>>,
                             <<B("SOLID a"), B("endsolid a")>>,
                             <<B("solid"), B("endsolid")>>,
                             <<B("solid a"), B("facet normal 0 0 0"), B("outer loop"),
                               B("vertex 0 0 0"), B("vertex 1 0 0"), B("vertex 0 1 0"),
                               B("endloop"), B("endfacet"), B("endsolid a")>> } }
      \cup { <<115, 111, 108, 105, 100, 9, 97, 10>>, B("soli") }

InitStream ==
    /\ compute_missing_normals \in BOOLEAN
    /\ AsciiIdle
    /\ SerIdle
    /\ is \in { IStream(d) : d \in BinaryInputs \cup TextInputs }
    /\ \/ auto = AutoEntry /\ bin = BinOff
       \/ auto = AutoOff /\ bin = BinEntry

\* What the autodetecting parse does when the parser it called is at b.
AutoAfter(b) ==
    IF auto.pc = "binary" /\ b.pc = "returned"
    THEN [auto EXCEPT !.pc = "returned", !.result = b.result]
    ELSE auto

\* Parse.cpp, the probe.
Probe ==
    /\ auto.pc = "probe"
    /\ \E r \in {AutoProbe(is)} :
           /\ is' = r.is
           /\ auto' = [auto EXCEPT !.pc = "dispatch", !.readOk = r.readOk, !.probe = r.probe]
    /\ UNCHANGED <<compute_missing_normals, asciiVars, bin, serVars>>

\* Parse.cpp, the ASCII path: the call of ASCII::parse on the stream.
DispatchAscii ==
    /\ auto.pc = "dispatch"
    /\ AutoRoute(auto.readOk, auto.probe) = "ascii"
    /\ \E r \in {AsciiStream(is, compute_missing_normals)} :
           /\ is' = r.is
           /\ text' = r.text
           /\ frame' = r.frame
           /\ auto' = [auto EXCEPT !.pc = "returned", !.result = r.frame.result]
    /\ UNCHANGED <<compute_missing_normals, eof, extra, trailing, bin, serVars>>

\* Parse.cpp, the binary path: the call of Binary::parse on the stream.
DispatchBinary ==
    /\ auto.pc = "dispatch"
    /\ AutoRoute(auto.readOk, auto.probe) = "binary"
    /\ bin' = BinEntry
    /\ auto' = [auto EXCEPT !.pc = "binary"]
    /\ UNCHANGED <<compute_missing_normals, asciiVars, is, serVars>>

BinHeaderStep ==
    /\ bin.pc = "header"
    /\ \E r \in {BinReadHeader(is, bin)} :
           is' = r.is /\ bin' = r.b /\ auto' = AutoAfter(r.b)
    /\ UNCHANGED <<compute_missing_normals, asciiVars, serVars>>

BinCountStep ==
    /\ bin.pc = "count"
    /\ \E r \in {BinReadCount(is, bin)} :
           is' = r.is /\ bin' = r.b /\ auto' = AutoAfter(r.b)
    /\ UNCHANGED <<compute_missing_normals, asciiVars, serVars>>

\* The reservation is granted.
BinReserveGranted ==
    /\ bin.pc = "reserve"
    /\ bin' = BinReserve(bin, TRUE)
    /\ UNCHANGED <<compute_missing_normals, asciiVars, is, auto, serVars>>

\* The reservation is refused: the allocator throws.  reserve(0) asks for no
\* storage.
BinReserveRefused ==
    /\ bin.pc = "reserve"
    /\ bin.triCount > 0
    /\ bin' = BinReserve(bin, FALSE)
    /\ auto' = AutoAfter(bin')
    /\ UNCHANGED <<compute_missing_normals, asciiVars, is, serVars>>

BinRecordStep ==
    /\ bin.pc = "records"
    /\ \E r \in {BinRecord(is, bin, compute_missing_normals)} :
           is' = r.is /\ bin' = r.b /\ auto' = AutoAfter(r.b)
    /\ UNCHANGED <<compute_missing_normals, asciiVars, serVars>>

NextStream ==
    \/ Probe
    \/ DispatchAscii
    \/ DispatchBinary
    \/ BinHeaderStep
    \/ BinCountStep
    \/ BinReserveGranted
    \/ BinReserveRefused
    \/ BinRecordStep

\* Every input of BinaryInputs and TextInputs given to Binary::parse and to
\* the autodetecting parse.
SpecStream == InitStream /\ [][NextStream]_vars

(***************************************************************************)
(* The autodetecting parse called on a stream the caller has already used: *)
(* the read position and the state bits at entry vary, and the stream can  *)
(* seek or not.                                                            *)
(***************************************************************************)
\* What the caller has read before the call.
Consumed == B("xxxx")

EntryData ==
    { Consumed \o BinaryFile(B("bin"), 1, <<TriUp>>),
      Consumed \o BinaryFile(B("bin"), 2147483647, <<>>),
      Consumed \o Unlines(<<B("solid a"), B("endsolid a")>>),
      BinaryFile(B("solid cube"), 1, <<TriUp>>),
      B("xxxxsoli"),
      B("soli") }

\* The state bits a stream can have at entry: good, failed at the end of the
\* data, at the end without failure (after peek), failed before the end;
\* each on a buffer that can seek and on one that cannot.
EntryStreams ==
    { [data |-> d, pos |-> p, fail |-> st[1], eofbit |-> st[2], seekable |-> sk] :
        d \in EntryData, p \in {0, 4}, st \in {<<FALSE, FALSE>>, <<TRUE, FALSE>>},
        sk \in BOOLEAN }
      \cup
    { [data |-> d, pos |-> Len(d), fail |-> st[1], eofbit |-> st[2], seekable |-> sk] :
        d \in EntryData, st \in {<<FALSE, FALSE>>, <<TRUE, TRUE>>, <<FALSE, TRUE>>},
        sk \in BOOLEAN }

InitEntry ==
    /\ compute_missing_normals \in BOOLEAN
    /\ AsciiIdle
    /\ SerIdle
    /\ is \in EntryStreams
    /\ auto = AutoEntry
    /\ bin = BinOff

\* The autodetecting parse on every stream of EntryStreams.
SpecEntry == InitEntry /\ [][NextStream]_vars

(***************************************************************************)
(* Serializing a mesh and parsing what was written.                        *)
(***************************************************************************)
\* A header longer than the 80 bytes of the field.
LongHeader == [i \in 1..85 |-> 104]

\* A header with a tab and a NUL inside and a space, a CR and an LF at its end.
MixedHeader == <<97, 9, 0, 98, 32, 13, 10>>

Headers == {B("solid cube"), <<>>, LongHeader, MixedHeader}

Attributes == {0, 513}

\* The sink takes everything, or is full after 40, 82 or 100 bytes.
SinkLimits == {-1, 40, 82, 100}

\* A name with a newline in it.
TwoLineName == <<97, NL, 98>>

Names == {B("a"), B("a b"), B(" a  b"), <<>>, TwoLineName}

Precisions == {0, 6}

BinarySources ==
    { [codec |-> "binary", mesh |-> [name |-> B("a"), tris |-> ts], header |-> h,
       attribute_byte_count |-> a] :
      ts \in SeqsUpTo(Tris, MaxTris), h \in Headers, a \in Attributes }

AsciiSources ==
    { [codec |-> "ascii", mesh |-> [name |-> n, tris |-> ts], float_precision |-> p] :
      n \in Names, ts \in SeqsUpTo(Tris, MaxTris), p \in Precisions }

InitRoundTrip ==
    /\ compute_missing_normals \in BOOLEAN
    /\ AsciiIdle
    /\ StreamIdle
    /\ \/ src \in BinarySources /\ os \in {OStream(l) : l \in SinkLimits}
       \/ src \in AsciiSources /\ os \in {OStream(l) : l \in SinkLimits}
    /\ ser = SerEntry

SerHeaderStep ==
    /\ src.codec = "binary"
    /\ ser.pc = "header"
    /\ \E r \in {SerHeader(os, ser, src.header)} : os' = r.os /\ ser' = r.w
    /\ UNCHANGED <<compute_missing_normals, asciiVars, streamVars, src>>

SerCountStep ==
    /\ src.codec = "binary"
    /\ ser.pc = "count"
    /\ \E r \in {SerCount(os, ser, src.mesh)} : os' = r.os /\ ser' = r.w
    /\ UNCHANGED <<compute_missing_normals, asciiVars, streamVars, src>>

SerRecordStep ==
    /\ src.codec = "binary"
    /\ ser.pc = "records"
    /\ \E r \in {SerRecord(os, ser, src.mesh, src.attribute_byte_count)} :
           os' = r.os /\ ser' = r.w
    /\ UNCHANGED <<compute_missing_normals, asciiVars, streamVars, src>>

\* The bytes written are opened as a stream and Binary::parse is called on it.
Reopen ==
    /\ src.codec = "binary"
    /\ ser.pc = "returned"
    /\ ser.result = Returned(TRUE)
    /\ bin.pc = "off"
    /\ is' = IStream(os.data)
    /\ bin' = BinEntry
    /\ UNCHANGED <<compute_missing_normals, asciiVars, auto, serVars>>

\* ASCII::serialize(mesh, float_precision): the string it returns.
AsciiSerialize ==
    /\ src.codec = "ascii"
    /\ ser.pc = "header"
    /\ text' = ascii_serialize(src.mesh, src.float_precision)
    /\ ser' = Return(ser, [kind |-> "string"])
    /\ UNCHANGED <<compute_missing_normals, frame, eof, extra, trailing, streamVars, src, os>>

\* ASCII::serialize(os, mesh, float_precision): the string is written to os
\* and the state of os is returned.
AsciiSerializeStream ==
    /\ src.codec = "ascii"
    /\ ser.pc = "header"
    /\ \E r \in {write(os, ascii_serialize(src.mesh, src.float_precision))} :
           /\ os' = r
           /\ ser' = Return(ser, Returned(~r.bad))
    /\ UNCHANGED <<compute_missing_normals, asciiVars, streamVars, src>>

\* An ASCII::serialize has given the whole text: the string returned, or the
\* bytes in os when the write succeeded.
AsciiDone ==
    /\ src.codec = "ascii"
    /\ ser.pc = "returned"
    /\ (ser.result.kind = "string" \/ ser.result = Returned(TRUE))

\* The text an ASCII::serialize has given.
AsciiOut == IF ser.result.kind = "string" THEN text ELSE os.data

\* ASCII::parse of the text.
AsciiParseBack ==
    /\ AsciiDone
    /\ frame.pc = "loop"
    /\ text' = AsciiOut
    /\ frame' = ParseFrame(AsciiOut, compute_missing_normals)
    /\ UNCHANGED <<compute_missing_normals, eof, extra, trailing, streamVars, serVars>>

NextRoundTrip ==
    \/ SerHeaderStep
    \/ SerCountStep
    \/ SerRecordStep
    \/ Reopen
    \/ BinHeaderStep
    \/ BinCountStep
    \/ BinReserveGranted
    \/ BinReserveRefused
    \/ BinRecordStep
    \/ AsciiSerialize
    \/ AsciiSerializeStream
    \/ AsciiParseBack

\* Every mesh of at most MaxTris triangles over Tris written by a serializer
\* and read back by the parser of the same format.
SpecRoundTrip == InitRoundTrip /\ [][NextRoundTrip]_vars

(***************************************************************************)
(* Normals: each of the four operations (the two parsers, the two          *)
(* serializers) applied to triangles with and without a normal.            *)
(***************************************************************************)
\* TriZero with v1 and v2 exchanged.
TriSwapped ==
    [normal |-> Vec3(FZero, FZero, FZero),
     v |-> <<Vec3(FZero, FZero, FZero), Vec3(FZero, F1, FZero), Vec3(F1, FZero, FZero)>>]

\* A triangle without a normal whose vertices lie on a line.
TriFlat ==
    [normal |-> Vec3(FZero, FZero, FZero),
     v |-> <<Vec3(FZero, FZero, FZero), Vec3(F1, FZero, FZero), Vec3(F2, FZero, FZero)>>]

\* A triangle without a normal whose face normal is (0, 3/5, 4/5).
TriSlope ==
    [normal |-> Vec3(FZero, FZero, FZero),
     v |-> <<Vec3(FZero, FZero, FZero), Vec3(F1, FZero, FZero),
             Vec3(FZero, float(0, 129, 0), float(1, 128, 4194304))>>]

NormalTris == {TriZero, TriSwapped, TriFlat, TriSlope, TriUp, TriTiny}

NormalMeshes == SeqsUpTo(NormalTris, MaxTris)

RECURSIVE RawRecords(_, _)
\* The records of the triangles ts[k..] with their normals as they are.
RawRecords(ts, k) ==
    IF k > Len(ts) THEN <<>> ELSE RecordOf(ts[k], 0) \o RawRecords(ts, k + 1)

\* A binary file that holds the triangles ts as they are.
RawFile(ts) == HeaderBytes(B("bin")) \o store_le_u32(Len(ts)) \o RawRecords(ts, 1)

\* The facet lines and the vertex lines of the texts.
NormalLines == {B("facet normal 0 0 0"), B("facet normal -0 0 0"), B("facet normal 0 0 1")}

VertexLines ==
    { <<B("vertex 0 0 0"), B("vertex 1 0 0"), B("vertex 0 1 0")>>,
      <<B("vertex 0 0 0"), B("vertex 0 1 0"), B("vertex 1 0 0")>>,
      <<B("vertex 0 0 0"), B("vertex 1 0 0"), B("vertex 2 0 0")>>,
      <<B("vertex 0 0 0"), B("vertex 1 0 0"), B("vertex 0 4 -3")>> }

\* The text of one facet.
TextOfFacet(n, vs) ==
    Unlines(<<B("solid a"), n, B("outer loop"), vs[1], vs[2], vs[3],
              B("endloop"), B("endfacet"), B("endsolid a")>>)

NormalTexts == { TextOfFacet(n, vs) : n \in NormalLines, vs \in VertexLines }

InitNormals ==
    /\ compute_missing_normals \in BOOLEAN
    /\ frame = ParseEntry
    /\ eof = FALSE
    /\ extra = 0
    /\ trailing = 0
    /\ auto = AutoOff
    /\ os = OStream(-1)
    /\ \/ /\ src \in { [codec |-> "binary", mesh |-> [name |-> B("a"), tris |-> ts],
                        header |-> B("bin"), attribute_byte_count |-> 0] :
                       ts \in NormalMeshes }
          /\ ser = SerEntry /\ text = <<>> /\ is = IStream(<<>>) /\ bin = BinOff
       \/ /\ src \in { [codec |-> "ascii", mesh |-> [name |-> B("a"), tris |-> ts],
                        float_precision |-> 6] : ts \in NormalMeshes }
          /\ ser = SerEntry /\ text = <<>> /\ is = IStream(<<>>) /\ bin = BinOff
       \/ /\ src \in { [codec |-> "file", mesh |-> [name |-> B("bin"), tris |-> ts]] :
                       ts \in NormalMeshes }
          /\ is = IStream(RawFile(src.mesh.tris))
          /\ bin = BinEntry /\ ser = SerOff /\ text = <<>>
       \/ /\ src = [codec |-> "text"]
          /\ text \in NormalTexts
          /\ ser = SerOff /\ is = IStream(<<>>) /\ bin = BinOff

\* ASCII::parse(text, compute_missing_normals) on a text given by the caller.
AsciiParseText ==
    /\ src.codec = "text"
    /\ frame.pc = "loop"
    /\ frame' = ParseFrame(text, compute_missing_normals)
    /\ UNCHANGED <<text, compute_missing_normals, eof, extra, trailing, streamVars, serVars>>

NextNormals ==
    \/ SerHeaderStep
    \/ SerCountStep
    \/ SerRecordStep
    \/ AsciiSerialize
    \/ AsciiSerializeStream
    \/ BinHeaderStep
    \/ BinCountStep
    \/ BinReserveGranted
    \/ BinReserveRefused
    \/ BinRecordStep
    \/ AsciiParseText

\* Each parser and each serializer on the triangles of NormalTris.
SpecNormals == InitNormals /\ [][NextNormals]_vars

(***************************************************************************)
(* Properties of ASCII parse.                                              *)
(***************************************************************************)

\* The number of newline bytes of a text.
CountNL(t) == Cardinality({i \in 1..Len(t) : t[i] = NL})

\* The lines of a text whose every line ends with a newline.
TextLines(t) ==
    LET ls == SplitLines(t)
    IN  IF Len(ls) = 0 THEN <<>> ELSE SubSeq(ls, 1, Len(ls) - 1)

\* The loop takes this line in the step.
Takes(line) == frame.pc = "loop" /\ ~eof /\ text' = text \o line \o <<NL>>

\* The call has returned an error that carries line number n.
IsLineError(f, n) ==
    /\ f.pc = "returned"
    /\ f.result.kind = "error"
    /\ Len(f.result.error) >= 2
    /\ f.result.error[1] = "Line "
    /\ f.result.error[2] = n

\* The line has the two keywords k1 k2 as its first two tokens.
IsKind2(line, k1, k2) ==
    LET toks == tokenize_ws(line)
    IN  Len(toks) > 1 /\ eq_ci(toks[1], k1) /\ eq_ci(toks[2], k2)

\* A keyword line that is out of order in the state f.
OutOfOrder(f, line) ==
    \/ IsKind(line, KwVertex) /\ f.phase \notin {"in_loop", "have_v1", "have_v2"}
    \/ IsKind(line, KwVertex) /\ f.vertex_count = 3
    \/ IsKind2(line, KwOuter, KwLoop) /\ f.phase # "have_facet"
    \/ IsKind2(line, KwFacet, KwNormal) /\ f.phase # "idle"

\* C1: inside the solid, a vertex line while no loop is open, an outer loop
\* line when the phase is not have_facet, a facet normal line when the phase
\* is not idle, and a fourth vertex line in one loop each make parse return
\* an error that carries the 1-based number of that line, and no mesh.
C1_OutOfOrderIsLineError ==
    [][\A line \in Lines :
          (Takes(line) /\ frame.in_solid /\ OutOfOrder(frame, line))
              => IsLineError(frame', CountNL(text) + 1)]_vars

\* A fourth vertex line has been refused at line 7.
C1_Witness ==
    /\ frame.pc = "returned"
    /\ frame.result = Unexpected(<<"Line ", 7, ": ", "too many vertices in loop">>)
    /\ frame.vertex_count = 3

RECURSIVE VerticesInOpenLoop(_, _)
\* The number of vertex lines among ls[1..i] since the most recent outer loop
\* line of the facet that is open; -1 when no loop is open.
VerticesInOpenLoop(ls, i) ==
    IF i = 0 THEN -1
    ELSE IF IsKind(ls[i], KwEndfacet) \/ IsKind(ls[i], KwFacet) THEN -1
    ELSE IF IsKind(ls[i], KwOuter) THEN 0
    ELSE LET r == VerticesInOpenLoop(ls, i - 1)
         IN  IF r < 0 THEN -1
             ELSE IF IsKind(ls[i], KwVertex) THEN r + 1
             ELSE r

\* C2: inside the solid an endloop or endfacet line is accepted only when the
\* loop that is open has received exactly three vertices; in every other
\* state, also when no facet or loop is open, it is an error.
C2_EndOnlyAfterThree ==
    [][\A line \in Lines :
          ( /\ Takes(line)
            /\ frame.in_solid
            /\ IsKind(line, KwEndloop) \/ IsKind(line, KwEndfacet)
            /\ VerticesInOpenLoop(TextLines(text), CountNL(text)) # 3 )
              => IsLineError(frame', CountNL(text) + 1)]_vars

\* The indices of the lines of kind kw, in order.
LinesOfKind(ls, kw) ==
    LET OfKind(i) == IsKind(ls[i], kw)
    IN  SelectSeq([i \in 1..Len(ls) |-> i], OfKind)

\* The three numbers of a line from its token start on.
FloatsOf(line, start) ==
    LET toks == tokenize_ws(line)
    IN  Vec3(readf(toks[start]).v, readf(toks[start + 1]).v, readf(toks[start + 2]).v)

\* The triangle that the lines ls[from..to] of one facet describe.
TriangleOfBlock(ls, from, to, cmn) ==
    LET block == SubSeq(ls, from, to)
        fl    == LinesOfKind(block, KwFacet)
        vl    == LinesOfKind(block, KwVertex)
        t     == [normal |-> FloatsOf(block[fl[1]], 3),
                  v |-> <<FloatsOf(block[vl[1]], 2), FloatsOf(block[vl[2]], 2),
                          FloatsOf(block[vl[3]], 2)>>]
    IN  IF cmn /\ normal_is_missing(t.normal) THEN [t EXCEPT !.normal = face_normal(t)]
        ELSE t

\* The triangles that the facets of a text describe, in file order.
TrianglesOfText(t, cmn) ==
    LET ls   == TextLines(t)
        ends == LinesOfKind(ls, KwEndfacet)
    IN  [k \in 1..Len(ends) |->
            TriangleOfBlock(ls, IF k = 1 THEN 1 ELSE ends[k - 1] + 1, ends[k], cmn)]

\* C3: a successful parse returns one triangle per facet closed by endfacet,
\* in file order; its vertices are the numbers of the first, second and third
\* vertex line of its own facet and its normal is the one of its own facet
\* line or the completion of that; nothing comes from an earlier facet.
C3_TrianglesAreTheFacets ==
    (frame.pc = "returned" /\ frame.result.kind = "mesh")
        => frame.result.mesh.tris = TrianglesOfText(text, compute_missing_normals)

\* Two different facets have been read, the first with a completed normal.
C3_Witness ==
    /\ frame.pc = "returned"
    /\ frame.result.kind = "mesh"
    /\ Len(frame.result.mesh.tris) = 2
    /\ frame.result.mesh.tris[1].v # frame.result.mesh.tris[2].v
    /\ frame.result.mesh.tris[1].normal # frame.result.mesh.tris[2].normal
    /\ compute_missing_normals
    /\ IsKind2(TextLines(text)[2], KwFacet, KwNormal)
    /\ FloatsOf(TextLines(text)[2], 3) = Vec3(FZero, FZero, FZero)
    /\ frame.result.mesh.tris[1].normal # Vec3(FZero, FZero, FZero)

\* The facets opened and not closed in a text whose lines were all accepted.
OpenFacets(t) ==
    Len(LinesOfKind(TextLines(t), KwFacet)) - Len(LinesOfKind(TextLines(t), KwEndfacet))

\* C4: when the input ends inside the solid, without endsolid, parse returns
\* the mesh exactly when every opened facet has been closed, and otherwise
\* the error Unexpected EOF: unterminated facet/loop and no mesh.
C4_EndOfInputInSolid ==
    (frame.pc = "returned" /\ eof /\ frame.in_solid)
        => IF OpenFacets(text) = 0
           THEN frame.result.kind = "mesh"
           ELSE frame.result = Unexpected(<<"Unexpected EOF: unterminated facet/loop">>)

\* The input has ended inside a loop with vertices read.
C4_Witness ==
    /\ frame.pc = "returned"
    /\ eof
    /\ frame.in_solid
    /\ frame.phase = "have_v2"
    /\ frame.result = Unexpected(<<"Unexpected EOF: unterminated facet/loop">>)

\* Line k of ls is an endsolid line that the loop reaches inside the solid.
ReachesEndsolid(ls, k, cmn) ==
    /\ IsKind(ls[k], KwEndsolid)
    /\ LET f == RunLines(ParseEntry, SubSeq(ls, 1, k - 1), 1, cmn)
       IN  f.pc = "loop" /\ f.in_solid

\* C5: for a text T that ends with an accepted endsolid line and any text S,
\* parse of T followed by S returns what parse of T returns.
C5_EndsolidEndsParsing ==
    LET ls == TextLines(text)
    IN  \A k \in 1..Len(ls) :
            ReachesEndsolid(ls, k, compute_missing_normals)
                => ascii_parse(text, compute_missing_normals)
                     = ascii_parse(Unlines(SubSeq(ls, 1, k)), compute_missing_normals)

\* A line follows the endsolid line at which the call stopped.
C5_Witness ==
    /\ frame.pc = "returned"
    /\ frame.result.kind = "mesh"
    /\ trailing > 0
    /\ IsKind(TextLines(text)[frame.line_no], KwEndsolid)
    /\ CountNL(text) > frame.line_no

\* The line holds white space only.
IsBlank(line) == \A i \in 1..Len(line) : isspace(line[i])

\* The two tokens are the same word up to letter case.
SameWord(a, b) == Len(a) = Len(b) /\ \A i \in 1..Len(a) : tolower(a[i]) = tolower(b[i])

\* C6: when the first token of the first non-blank line is not the word
\* solid, in any letter case, parse returns the error expected 'solid' with
\* the 1-based number of that line, whatever the later lines are.
C6_FirstLineMustBeSolid ==
    LET ls == TextLines(text)
        nb == {i \in 1..Len(ls) : ~IsBlank(ls[i])}
    IN  nb # {} =>
          LET n == CHOOSE i \in nb : \A j \in nb : i <= j
          IN  ~SameWord(tokenize_ws(ls[n])[1], KwSolid)
                => ascii_parse(text, compute_missing_normals)
                     = Unexpected(<<"Line ", n, ": ", "expected 'solid'">>)

\* A line that is not a header came after a blank line, and a line follows.
C6_Witness ==
    /\ frame.pc = "returned"
    /\ frame.result = Unexpected(<<"Line ", 2, ": ", "expected 'solid'">>)
    /\ trailing > 0

(***************************************************************************)
(* Properties of Binary::parse, the round trips and the autodetection.     *)
(***************************************************************************)

\* The count field of a stream of at least 84 bytes.
CountField(data) == load_le_u32(SubSeq(data, 81, 84))

\* The triangle that record k of the data holds, as parse hands it out.
TriangleOfRecord(data, k, cmn) ==
    Completed(RecTriangle(SubSeq(data, 84 + 50 * (k - 1) + 1, 84 + 50 * k)), cmn)

\* C7: Binary::parse on a stream of L bytes with count field c returns the
\* header error when L < 80, the count error when 80 <= L < 84, the error
\* unexpected EOF in triangle data and no mesh when 84 <= L < 84 + 50 c, and
\* otherwise the mesh of exactly c triangles in record order.
C7_BinaryOutcomeByLength ==
    bin.pc = "returned" =>
        IF Len(is.data) < 80
        THEN bin.result = Unexpected(<<"Binary STL: failed to read 80-byte header">>)
        ELSE IF Len(is.data) < 84
        THEN bin.result = Unexpected(<<"Binary STL: failed to read triangle count">>)
        ELSE IF (Len(is.data) - 84) \div 50 < CountField(is.data)
        THEN bin.result = Unexpected(<<"Binary STL: unexpected EOF in triangle data">>)
        ELSE /\ bin.result.kind = "mesh"
             /\ Len(bin.result.mesh.tris) = CountField(is.data)
             /\ \A k \in 1..CountField(is.data) :
                   bin.result.mesh.tris[k]
                       = TriangleOfRecord(is.data, k, compute_missing_normals)

\* Two records have been read from a stream that holds exactly two.
C7_Witness ==
    /\ bin.pc = "returned"
    /\ Len(is.data) = 184
    /\ bin.result.kind = "mesh"
    /\ Len(bin.result.mesh.tris) = 2
    /\ bin.result.mesh.tris[1] # bin.result.mesh.tris[2]

\* The vertices of two triangles are the same bit for bit.
SameVertices(t, u) == t.v = u.v

\* A normal with a component that is not zero.
NonZeroNormal(n) == ~(IsZero(n.x) /\ IsZero(n.y) /\ IsZero(n.z))

\* The mesh read back has the triangles of the mesh written, in order, with
\* the same vertices, and the same normal wherever Kept says so.
ReadBackSame(Kept(_)) ==
    /\ bin.result.kind = "mesh"
    /\ Len(bin.result.mesh.tris) = Len(src.mesh.tris)
    /\ \A k \in 1..Len(src.mesh.tris) :
          /\ SameVertices(bin.result.mesh.tris[k], src.mesh.tris[k])
          /\ Kept(src.mesh.tris[k].normal)
                => bin.result.mesh.tris[k].normal = src.mesh.tris[k].normal

\* C8: Binary::parse of what Binary::serialize wrote succeeds and returns the
\* triangles in order, every vertex component and every component of a
\* non-zero normal bit-identical.
C8_RoundTripNonZeroNormals ==
    (src.codec = "binary" /\ bin.pc = "returned") => ReadBackSame(NonZeroNormal)

\* A normal that the serializer writes as it is.
NormalWritten(n) == ~normal_is_missing(n)

\* Two triangles whose normals the serializer writes as they are have been
\* written under a header of more than 80 bytes and with a non-zero
\* attribute, and std::bad_alloc has left the Binary::parse of the bytes.
C8_Witness ==
    /\ src.codec = "binary"
    /\ ser.result = Returned(TRUE)
    /\ Len(src.header) > 80
    /\ src.attribute_byte_count = 513
    /\ src.mesh.tris = <<TriUp, TriUp>>
    /\ bin.pc = "returned"
    /\ bin.result = Thrown("std::bad_alloc")

\* 2^20: the numbers compared are whole multiples of 2^-20.
GridUnits == Pow2(20)

\* A number below 2^-20 in magnitude that is not zero.
BelowGrid(f) == ~IsZero(f) /\ f.e < 107

\* A finite f in units of 2^-20.
ToGrid(f) ==
    IF IsZero(f) THEN 0
    ELSE LET n == IF f.e >= 130
                  THEN InRange(f.e <= 136, Sig(f) * Pow2(f.e - 130))
                  ELSE InRange(f.e >= 107 /\ Sig(f) % Pow2(130 - f.e) = 0,
                               Sig(f) \div Pow2(130 - f.e))
         IN  IF f.s = 1 THEN 0 - n ELSE n

\* |a - b| <= 10^-p.
Within(a, b, p) ==
    IF a = b THEN TRUE
    ELSE IF a.e = 255 \/ b.e = 255 THEN FALSE
    ELSE IF (IsZero(a) /\ BelowGrid(b)) \/ (IsZero(b) /\ BelowGrid(a))
    THEN InRange(Pow10(p) <= GridUnits, TRUE)
    ELSE LET d == ToGrid(a) - ToGrid(b)
         IN  (IF d < 0 THEN 0 - d ELSE d) <= GridUnits \div Pow10(p)

Within3(u, v, p) == Within(u.x, v.x, p) /\ Within(u.y, v.y, p) /\ Within(u.z, v.z, p)

\* C9: ASCII::parse of ASCII::serialize(m, p), for any name, any number of
\* triangles and p >= 0, succeeds and returns the triangles in order, every
\* vertex component and every component of a non-zero normal within 10^-p
\* of the original.
C9_AsciiRoundTrip ==
    (src.codec = "ascii" /\ frame.pc = "returned") =>
        /\ frame.result.kind = "mesh"
        /\ Len(frame.result.mesh.tris) = Len(src.mesh.tris)
        /\ \A k \in 1..Len(src.mesh.tris) :
              /\ \A j \in 1..3 : Within3(frame.result.mesh.tris[k].v[j],
                                         src.mesh.tris[k].v[j], src.float_precision)
              /\ NonZeroNormal(src.mesh.tris[k].normal)
                    => Within3(frame.result.mesh.tris[k].normal,
                               src.mesh.tris[k].normal, src.float_precision)

\* The text of a mesh whose name has a newline in it has been refused.
C9_Witness ==
    /\ src.codec = "ascii"
    /\ src.mesh.name = TwoLineName
    /\ frame.pc = "returned"
    /\ frame.result = Unexpected(<<"Line ", 2, ": ", "unexpected content: '", B("b"), "'">>)

\* The stream starts with the six bytes s, o, l, i, d and space.
StartsWithSolid(data) ==
    Len(data) >= 6 /\ SubSeq(data, 1, 6) = <<115, 111, 108, 105, 100, 32>>

\* C10: the autodetecting parse calls the ASCII parser exactly when the
\* stream has at least 6 bytes and the first 6 are "solid " in lower case
\* with the space; for every other stream it calls the binary parser.
C10_AsciiIffSolidPrefix ==
    auto.pc \in {"binary", "returned"} =>
        /\ frame.pc = "returned" <=> StartsWithSolid(is.data)
        /\ bin.pc # "off" <=> ~StartsWithSolid(is.data)

\* A stream that starts with solid and a space has gone to the ASCII parser,
\* which read a facet from it.
C10_Witness ==
    /\ auto.pc = "returned"
    /\ StartsWithSolid(is.data)
    /\ bin.pc = "off"
    /\ frame.result.kind = "mesh"
    /\ Len(frame.result.mesh.tris) = 1
    /\ auto.result = frame.result

\* C11: the probe consumes nothing: after the peek the read position and the
\* error state of the stream are those at entry, also when fewer than 6
\* bytes were available, so that the parser called starts where the stream
\* was at entry, and the autodetecting parse returns what that parser
\* returns.
C11_ProbeRestoresStream ==
    [][ /\ (auto.pc = "probe" /\ auto'.pc = "dispatch")
            => (is'.pos = is.pos /\ is'.fail = is.fail /\ is'.eofbit = is.eofbit)
        /\ (auto.pc # "returned" /\ auto'.pc = "returned")
            => auto'.result = (IF bin'.pc = "off" THEN frame'.result ELSE bin'.result)
      ]_vars

\* A good stream that cannot seek, four bytes read by the caller, then the
\* text of an empty solid: the probe leaves failbit set and six bytes
\* consumed, and the ASCII parser reports an I/O error.
C11_Witness ==
    /\ auto.pc = "returned"
    /\ ~is.seekable
    /\ is.data = Consumed \o Unlines(<<B("solid a"), B("endsolid a")>>)
    /\ is.fail /\ ~is.eofbit
    /\ bin.pc = "off"
    /\ auto.result = Unexpected(<<"I/O error while reading stream">>)

(***************************************************************************)
(* Properties of the normals.                                              *)
(***************************************************************************)
\* A normal whose three components are zero.
ZeroNormal(n) == IsZero(n.x) /\ IsZero(n.y) /\ IsZero(n.z)

\* What a parser was given and the normal it returned, triangle by triangle.
ParsedPairs ==
    IF src.codec = "file" /\ bin.pc = "returned" /\ bin.result.kind = "mesh"
    THEN [k \in 1..Len(bin.result.mesh.tris) |->
             [given |-> src.mesh.tris[k], normal |-> bin.result.mesh.tris[k].normal]]
    ELSE IF src.codec = "text" /\ frame.pc = "returned" /\ frame.result.kind = "mesh"
    THEN [k \in 1..Len(frame.result.mesh.tris) |->
             [given |-> TrianglesOfText(text, FALSE)[k],
              normal |-> frame.result.mesh.tris[k].normal]]
    ELSE <<>>

\* What a serializer was given and the normal it wrote, triangle by triangle.
EmittedPairs ==
    IF src.codec = "binary" /\ ser.pc = "returned" /\ ser.result = Returned(TRUE)
    THEN [k \in 1..Len(src.mesh.tris) |->
             [given |-> src.mesh.tris[k],
              normal |-> TriangleOfRecord(os.data, k, FALSE).normal]]
    ELSE IF AsciiDone
    THEN [k \in 1..Len(src.mesh.tris) |->
             [given |-> src.mesh.tris[k],
              normal |-> TrianglesOfText(AsciiOut, FALSE)[k].normal]]
    ELSE <<>>

\* The normals that a completion may have made.
CompletedPairs ==
    (IF compute_missing_normals THEN ParsedPairs ELSE <<>>) \o EmittedPairs

\* (v1 - v0) x (v2 - v0) of a triangle with integer vertices.
CrossOf(t) ==
    LET ax == FToInt(t.v[2].x) - FToInt(t.v[1].x)
        ay == FToInt(t.v[2].y) - FToInt(t.v[1].y)
        az == FToInt(t.v[2].z) - FToInt(t.v[1].z)
        bx == FToInt(t.v[3].x) - FToInt(t.v[1].x)
        by == FToInt(t.v[3].y) - FToInt(t.v[1].y)
        bz == FToInt(t.v[3].z) - FToInt(t.v[1].z)
    IN  <<ay * bz - az * by, az * bx - ax * bz, ax * by - ay * bx>>

\* Two floats hold the same number.
SameNumber(a, b) == a = b \/ (IsZero(a) /\ IsZero(b))

\* n is c divided by its length, for c of non-zero length.
UnitAlong(n, c) ==
    /\ c # <<0, 0, 0>>
    /\ \E len \in {ISqrt(c[1] * c[1] + c[2] * c[2] + c[3] * c[3])} :
          /\ SameNumber(n.x, QToF(c[1], len))
          /\ SameNumber(n.y, QToF(c[2], len))
          /\ SameNumber(n.z, QToF(c[3], len))

C13_NormalsStoredAsGiven ==
    \A k \in DOMAIN ParsedPairs :
        (~compute_missing_normals \/ ~normal_is_missing(ParsedPairs[k].given.normal))
            => ParsedPairs[k].normal = ParsedPairs[k].given.normal

\* Binary::parse without completion has returned a zero normal as it was
\* given, and the normal (0, 0, 1) of a triangle whose winding gives
\* (0, 0, -1).
C13_Witness ==
    /\ src.codec = "file"
    /\ ~compute_missing_normals
    /\ Len(ParsedPairs) = 2
    /\ ParsedPairs[1].given = TriZero
    /\ ZeroNormal(ParsedPairs[1].normal)
    /\ ParsedPairs[2].given = TriUp
    /\ ParsedPairs[2].normal = TriUp.normal
    /\ ~UnitAlong(TriUp.normal, CrossOf(TriUp))

\* The components of two vectors hold the same numbers.
SameVector(u, v) ==
    SameNumber(u.x, v.x) /\ SameNumber(u.y, v.y) /\ SameNumber(u.z, v.z)

\* C14: neither serializer emits a normal that is all zero; for a triangle
\* whose normal is zero the emitted normal is the computed face normal.
C14_NoZeroNormalEmitted ==
    \A k \in DOMAIN EmittedPairs :
        /\ ~ZeroNormal(EmittedPairs[k].normal)
        /\ ZeroNormal(EmittedPairs[k].given.normal)
              => SameVector(EmittedPairs[k].normal, face_normal(EmittedPairs[k].given))

\* A serializer has written the normal of a triangle that was stored
\* without one.
C14_Witness ==
    /\ Len(EmittedPairs) = 1
    /\ EmittedPairs[1].given = TriSlope
    /\ EmittedPairs[1].normal = face_normal(TriSlope)
    /\ ~ZeroNormal(EmittedPairs[1].normal)

(***************************************************************************)
(* Further properties of ASCII parse.                                      *)
(***************************************************************************)
\* C15: every error that ASCII parse returns for the structure of the text,
\* the unterminated facet or loop at the end of the input included, carries
\* the 1-based number of the line at which it was detected.
C15_ErrorsCarryLineNumber ==
    (frame.pc = "returned" /\ frame.result.kind = "error")
        => IsLineError(frame, CountNL(text) - trailing)

\* An error other than the one of the epilogue has been returned with the
\* number of a line after the first.
C15_Witness ==
    /\ IsLineError(frame, CountNL(text) - trailing)
    /\ CountNL(text) - trailing > 1

\* A letter in the other case; any other byte as it is.
SwapCase(c) ==
    IF c >= 65 /\ c <= 90 THEN c + 32 ELSE IF c >= 97 /\ c <= 122 THEN c - 32 ELSE c

\* Token k of a line is one of its keywords: the first token when it is a
\* keyword, and normal after facet, loop after outer.
IsKeywordAt(toks, k) ==
    \/ /\ k = 1
       /\ \E kw \in {KwSolid, KwEndsolid, KwFacet, KwOuter, KwVertex, KwEndloop, KwEndfacet} :
             SameWord(toks[1], kw)
    \/ /\ k = 2
       /\ \/ SameWord(toks[1], KwFacet) /\ SameWord(toks[2], KwNormal)
          \/ SameWord(toks[1], KwOuter) /\ SameWord(toks[2], KwLoop)

RECURSIVE Spread(_, _)
\* The tokens toks[k..], each followed by a tab and two spaces.
Spread(toks, k) ==
    IF k > Len(toks) THEN <<>>
    ELSE [i \in 1..Len(toks[k]) |->
             IF IsKeywordAt(toks, k) THEN SwapCase(toks[k][i]) ELSE toks[k][i]]
         \o <<9, 32, 32>> \o Spread(toks, k + 1)

\* The tokens of a line with the letters of its keywords in the other case
\* and with other horizontal whitespace around them.
RespacedTokens(toks) == IF Len(toks) = 0 THEN <<>> ELSE <<32>> \o Spread(toks, 1)

\* The lines ls with the keywords in the other case and other horizontal
\* whitespace, as one text.
RecasedLines(ls) == Unlines([k \in 1..Len(ls) |-> RespacedTokens(tokenize_ws(ls[k]))])

\* A text with the keywords in the other case and other horizontal whitespace.
Recased(t) == RecasedLines(TextLines(t))

\* Two results agree in success or error, in the name and in the triangles.
SameOutcome(r, q) == r.kind = q.kind /\ (r.kind = "mesh" => r.mesh = q.mesh)

\* C16: changing the letter case of the keyword tokens of an input and the
\* amount of horizontal whitespace between its tokens does not change
\* whether parse succeeds, nor the name, nor the triangles.
C16_CaseAndSpacingIgnored ==
    frame.pc = "returned"
        => SameOutcome(frame.result, ascii_parse(Recased(text), compute_missing_normals))

\* A text with a triangle has been parsed, and the text with its keywords in
\* the other case and other whitespace gives the same mesh.
C16_Witness ==
    /\ frame.pc = "returned"
    /\ frame.result.kind = "mesh"
    /\ Len(frame.result.mesh.tris) = 1
    /\ frame.result.mesh.name = B("a")
    /\ Recased(text) # text
    /\ ascii_parse(Recased(text), compute_missing_normals) = frame.result

RECURSIVE SpacedFrom(_, _)
\* The tokens toks[k..], each after the first preceded by one space.
SpacedFrom(toks, k) ==
    IF k > Len(toks) THEN <<>>
    ELSE (IF k > 2 THEN <<32>> ELSE <<>>) \o toks[k] \o SpacedFrom(toks, k + 1)

\* The name a solid line gives: its tokens after the first, one space apart.
NameOnLine(line) == SpacedFrom(tokenize_ws(line), 2)

\* The line starts with the word solid, in any letter case.
IsSolidLine(line) ==
    Len(tokenize_ws(line)) > 0 /\ SameWord(tokenize_ws(line)[1], KwSolid)

\* The last solid line among the lines ls.
LastSolidLine(ls) == ls[MaxOf({k \in 1..Len(ls) : IsSolidLine(ls[k])})]

\* The lines the call has consumed.
ConsumedLines == SubSeq(TextLines(text), 1, CountNL(text) - trailing)

\* C17: a solid line read after the header is no error in any phase; it
\* replaces the name by its remaining tokens joined by single spaces and
\* leaves the phase, the vertex counter, the facet under construction and the
\* triangles as they are.  The name returned is the one of the last solid
\* line read; the name on the endsolid line is ignored.
C17_SolidLineOnlyRenames ==
    /\ [][ \A line \in Lines :
              (Takes(line) /\ frame.in_solid /\ IsSolidLine(line))
                  => frame' = [frame EXCEPT !.line_no = @ + 1,
                                            !.mesh.name = NameOnLine(line)] ]_vars
    /\ []((/\ frame.pc = "returned"
            /\ frame.result.kind = "mesh"
            /\ \E k \in 1..Len(ConsumedLines) : IsSolidLine(ConsumedLines[k]))
            => frame.result.mesh.name = NameOnLine(LastSolidLine(ConsumedLines)))

\* A solid line without a name has been read after the first vertex of a
\* loop, in a solid whose header gave the name a.
C17_Witness ==
    /\ frame.pc = "loop"
    /\ frame.phase = "have_v1"
    /\ frame.vertex_count = 1
    /\ Len(TextLines(text)) = 5
    /\ TextLines(text)[1] = B("solid a")
    /\ TextLines(text)[5] = B("Solid")
    /\ frame.mesh.name = <<>>

(***************************************************************************)
(* Properties of Binary::serialize.                                        *)
(***************************************************************************)
\* The call has returned v.
SerReturned(v) == src.codec = "binary" /\ ser.pc = "returned" /\ ser.result = Returned(v)

\* Float i (1..12) of record k of the bytes written.
FloatWritten(k, i) ==
    load_le_float(SubSeq(os.data, 84 + 50 * (k - 1) + 4 * (i - 1) + 1,
                         84 + 50 * (k - 1) + 4 * i))

\* The normal a record holds for the triangle t.
NormalOfRecord(t) == IF NormalWritten(t.normal) THEN t.normal ELSE face_normal(t)

\* The twelve floats a record holds for the triangle t.
FloatsOfRecord(t) ==
    <<NormalOfRecord(t).x, NormalOfRecord(t).y, NormalOfRecord(t).z,
      t.v[1].x, t.v[1].y, t.v[1].z, t.v[2].x, t.v[2].y, t.v[2].z,
      t.v[3].x, t.v[3].y, t.v[3].z>>

\* C18: on success Binary::serialize has written exactly 84 + 50 n bytes:
\* the header text cut to 80 bytes or padded with zero bytes, n as a
\* little-endian 32-bit count, and per triangle the normal, v0, v1, v2 as 12
\* little-endian floats followed by the attribute byte count as a
\* little-endian 16-bit value.
C18_BinaryLayout ==
    SerReturned(TRUE) =>
        /\ Len(os.data) = 84 + 50 * Len(src.mesh.tris)
        /\ \A i \in 1..80 :
              os.data[i] = IF i <= Len(src.header) THEN src.header[i] ELSE 0
        /\ os.data[81] + 256 * os.data[82] + 65536 * os.data[83]
              + 16777216 * os.data[84] = Len(src.mesh.tris)
        /\ \A k \in 1..Len(src.mesh.tris) :
              /\ \A i \in 1..12 : FloatWritten(k, i) = FloatsOfRecord(src.mesh.tris[k])[i]
              /\ os.data[84 + 50 * k - 1] + 256 * os.data[84 + 50 * k]
                    = src.attribute_byte_count

\* Two triangles have been written under a header of more than 80 bytes
\* with an attribute byte count whose two bytes differ.
C18_Witness ==
    /\ SerReturned(TRUE)
    /\ Len(src.mesh.tris) = 2
    /\ Len(src.header) > 80
    /\ src.attribute_byte_count = 513
    /\ Len(os.data) = 184

\* C19: when a write fails during Binary::serialize the sink holds none of
\* the output of the call.
C19_NothingLeftOnFailure == SerReturned(FALSE) => os.data = <<>>

\* A write has failed after the header and the count were written.
C19_Witness == SerReturned(FALSE) /\ os.bad /\ Len(os.data) >= 84

\* C20: Binary::serialize stops at the first failed write and returns false
\* without another write; the header, the count and the records are written
\* in that order; it returns true exactly when all of them were written; the
\* mesh passed in stays as it was.
C20_StopsAtFirstFailure ==
    /\ [][ src.codec = "binary" =>
              /\ (~os.bad /\ os'.bad) => (ser'.pc = "returned" /\ ser'.result = Returned(FALSE))
              /\ os.bad => os' = os
              /\ os'.data # os.data =>
                    \/ ser.pc = "header" /\ Len(os.data) = 0
                    \/ ser.pc = "count" /\ Len(os.data) = 80
                    \/ ser.pc = "records" /\ Len(os.data) = 84 + 50 * (ser.k - 1)
              /\ src' = src ]_vars
    /\ [](src.codec = "binary" /\ ser.pc = "returned"
            => (ser.result = Returned(TRUE)
                  <=> (~os.bad /\ Len(os.data) = 84 + 50 * Len(src.mesh.tris))))

\* The write of the first of two records has failed: the call has returned
\* false and the second record was never written.
C20_Witness ==
    /\ SerReturned(FALSE)
    /\ os.bad
    /\ ser.k = 1
    /\ Len(src.mesh.tris) = 2
    /\ Len(os.data) < 134

(***************************************************************************)
(* Properties of the keyword lines of ASCII parse.                         *)
(***************************************************************************)
\* One decimal digit or more.
IsDigits(s) == Len(s) > 0 /\ \A i \in 1..Len(s) : isdigit(s[i])

\* Digits with at most one point among them.
IsMantissa(s) ==
    \/ IsDigits(s)
    \/ \E p \in 1..Len(s) :
          /\ s[p] = 46
          /\ Len(s) > 1
          /\ \A i \in 1..Len(s) : i # p => isdigit(s[i])

\* Digits after an optional sign.
IsExponent(s) ==
    \/ IsDigits(s)
    \/ Len(s) > 1 /\ s[1] \in {43, 45} /\ IsDigits(Tail(s))

\* A mantissa with an optional exponent part.
IsUnsignedLiteral(u) ==
    \/ IsMantissa(u)
    \/ \E p \in 2..Len(u) - 1 :
          /\ u[p] \in {69, 101}
          /\ IsMantissa(SubSeq(u, 1, p - 1))
          /\ IsExponent(SubSeq(u, p + 1, Len(u)))

\* The token is a complete decimal or exponential float literal.
IsFloatLiteral(s) ==
    Len(s) > 0 /\ IsUnsignedLiteral(IF s[1] = 45 THEN Tail(s) ELSE s)

\* The tokens of a facet normal line after normal, of a vertex line after
\* vertex.
NumberTokens(toks) ==
    IF SameWord(toks[1], KwFacet) THEN SubSeq(toks, 3, Len(toks))
    ELSE SubSeq(toks, 2, Len(toks))

\* The line is a facet normal line or a vertex line read in a phase that
\* allows it.
NumberLineAllowed(f, toks) ==
    /\ f.in_solid
    /\ Len(toks) > 0
    /\ \/ /\ SameWord(toks[1], KwFacet)
          /\ Len(toks) > 1
          /\ SameWord(toks[2], KwNormal)
          /\ f.phase = "idle"
       \/ /\ SameWord(toks[1], KwVertex)
          /\ f.phase \in {"in_loop", "have_v1", "have_v2"}

\* The first three of the tokens nums are float literals.
ThreeLiterals(nums) == Len(nums) >= 3 /\ \A i \in 1..3 : IsFloatLiteral(nums[i])

\* The message for the tokens nums when they are not three literals.
NumberMessage(nums) ==
    IF Len(nums) < 3 THEN <<"Expected three floats">>
    ELSE <<"Failed to parse number: '",
           nums[MinOf({i \in 1..3 : ~IsFloatLiteral(nums[i])})], "'">>

\* C22: a facet normal or vertex line in an allowed phase whose three
\* number tokens are not all complete float literals returns an error with
\* the number of the line that names the first offending token, or says
\* Expected three floats when fewer than three tokens follow; no vertex is
\* added, no phase changed and no mesh returned.
C22_BadNumbersAreLineErrors ==
    [][ \A line \in ShapeLines :
           (/\ Takes(line)
            /\ NumberLineAllowed(frame, tokenize_ws(line))
            /\ ~ThreeLiterals(NumberTokens(tokenize_ws(line))))
               => /\ frame'.pc = "returned"
                  /\ frame'.result
                        = Unexpected(<<"Line ", frame.line_no + 1, ": ">>
                                       \o NumberMessage(NumberTokens(tokenize_ws(line))))
                  /\ frame'.phase = frame.phase
                  /\ frame'.vertex_count = frame.vertex_count
                  /\ frame'.current = frame.current
                  /\ frame'.mesh = frame.mesh ]_vars

\* A vertex line whose first token is a float literal cut short has been
\* read as the first vertex of a loop.
C22_Witness ==
    /\ frame.pc = "returned"
    /\ frame.phase = "in_loop"
    /\ frame.result
          = Unexpected(<<"Line ", 4, ": ", "Failed to parse number: '", B("1e"), "'">>)

\* A byte of whitespace.
IsBlankByte(c) == c \in {9, 10, 11, 12, 13, 32}

\* The line without the whitespace at its two ends, for a line that is not
\* blank.
Trimmed(line) ==
    SubSeq(line, MinOf({i \in 1..Len(line) : ~IsBlankByte(line[i])}),
           MaxOf({i \in 1..Len(line) : ~IsBlankByte(line[i])}))

\* The first token is none of the keywords, or it is outer and loop does not
\* follow.
Unrecognized(toks) ==
    /\ Len(toks) > 0
    /\ \/ \A kw \in {KwEndsolid, KwFacet, KwOuter, KwVertex, KwEndloop, KwEndfacet, KwSolid} :
             ~SameWord(toks[1], kw)
       \/ /\ SameWord(toks[1], KwOuter)
          /\ (Len(toks) < 2 \/ ~SameWord(toks[2], KwLoop))

\* C23: inside a solid, in every phase, a line whose first token is no
\* keyword, and an outer line without loop, make parse return the error
\* unexpected content with the number of the line and the trimmed line in
\* quotes; the line is never skipped.
C23_UnknownLinesAreErrors ==
    [][ \A line \in ShapeLines :
           (Takes(line) /\ frame.in_solid /\ Unrecognized(tokenize_ws(line)))
               => frame' = Return([frame EXCEPT !.line_no = @ + 1],
                                  Unexpected(<<"Line ", frame.line_no + 1, ": ",
                                               "unexpected content: '", Trimmed(line), "'">>)) ]_vars

\* A line of two unknown words has been read after the second vertex of a
\* loop.
C23_Witness ==
    /\ frame.pc = "returned"
    /\ frame.phase = "have_v2"
    /\ frame.vertex_count = 2
    /\ frame.result
          = Unexpected(<<"Line ", 6, ": ", "unexpected content: '", B("garbage  in"), "'">>)

(***************************************************************************)
(* Properties of the name that Binary::parse returns.                      *)
(***************************************************************************)
\* A byte that is removed from the end of the header.
IsPadding(c) == c \in {0, 9, 10, 13, 32}

RECURSIVE WithoutPadding(_)
\* The bytes s without the padding bytes at their end.
WithoutPadding(s) ==
    IF Len(s) = 0 THEN <<>>
    ELSE IF IsPadding(s[Len(s)]) THEN WithoutPadding(SubSeq(s, 1, Len(s) - 1))
    ELSE s

\* C24: the name of a mesh that Binary::parse returns is the 80 header bytes
\* without the NUL, space, tab, CR and LF bytes at their end; so after
\* Binary::serialize with a header text of at most 80 bytes that does not
\* end in such a byte the name read back is that text, whatever the name of
\* the mesh written.
C24_NameIsTrimmedHeader ==
    (bin.pc = "returned" /\ bin.result.kind = "mesh")
        => /\ bin.result.mesh.name = WithoutPadding(SubSeq(is.data, 1, 80))
           /\ (/\ src.codec = "binary"
               /\ Len(src.header) <= 80
               /\ (Len(src.header) = 0 \/ ~IsPadding(src.header[Len(src.header)])))
                  => bin.result.mesh.name = src.header

\* A header with a tab and a NUL inside and padding at its end has been
\* written and read back as the name without that end.
C24_Witness ==
    /\ bin.pc = "returned"
    /\ bin.result.kind = "mesh"
    /\ src.codec = "binary"
    /\ src.header = MixedHeader
    /\ bin.result.mesh.name = <<97, 9, 0, 98>>
    /\ bin.result.mesh.name # src.mesh.name

(***************************************************************************)
(* Properties of the phases of ASCII parse.                                *)
(***************************************************************************)
\* C25: in every state of ASCII parse the vertex counter is between 0 and 3
\* and agrees with the phase (in_loop: 0, have_v1: 1, have_v2: 2 or 3); a
\* triangle is appended only by a step from phase have_v2 with counter 3,
\* and that step leaves the phase idle.
C25_CounterAgreesWithPhase ==
    /\ [](/\ frame.vertex_count \in 0..3
          /\ frame.phase = "in_loop" => frame.vertex_count = 0
          /\ frame.phase = "have_v1" => frame.vertex_count = 1
          /\ frame.phase = "have_v2" => frame.vertex_count \in {2, 3})
    /\ [][ frame'.mesh.tris # frame.mesh.tris
              => /\ frame.phase = "have_v2"
                 /\ frame.vertex_count = 3
                 /\ frame'.phase = "idle"
                 /\ Len(frame'.mesh.tris) = Len(frame.mesh.tris) + 1 ]_vars

\* The loop of a second facet has been opened after a first triangle was
\* appended.
C25_Witness ==
    /\ frame.pc = "loop"
    /\ Len(frame.mesh.tris) = 1
    /\ frame.phase = "in_loop"
    /\ frame.vertex_count = 0

\* The call has returned a mesh.
ParseSucceeded == frame.pc = "returned" /\ frame.result.kind = "mesh"

\* C26: when ASCII parse returns success no facet is open where it stopped,
\* also when it stopped at an endsolid line: the triangles returned are as
\* many as the facet normal lines accepted.
C26_NoOpenFacetOnSuccess ==
    ParseSucceeded
        => /\ frame.phase = "idle"
           /\ Len(frame.result.mesh.tris) = Len(LinesOfKind(ConsumedLines, KwFacet))

\* Parse has stopped at an endsolid line after a closed facet and returned
\* its triangle.
C26_Witness ==
    /\ ParseSucceeded
    /\ ~eof
    /\ ~frame.in_solid
    /\ frame.phase = "idle"
    /\ Len(frame.result.mesh.tris) = 1
    /\ Len(LinesOfKind(ConsumedLines, KwFacet)) = 1

RECURSIVE EndloopsSinceOuter(_, _)
\* The number of endloop lines among ls[1..i] after the last outer line.
EndloopsSinceOuter(ls, i) ==
    IF i = 0 \/ IsKind(ls[i], KwOuter) THEN 0
    ELSE (IF IsKind(ls[i], KwEndloop) THEN 1 ELSE 0) + EndloopsSinceOuter(ls, i - 1)

\* C27: an endfacet line is accepted only after an endloop line has been
\* accepted for the loop, and an endloop line is accepted at most once per
\* loop.
C27_EndloopOncePerLoop ==
    [][ \A line \in Lines :
           (Takes(line) /\ frame.in_solid /\ frame'.pc # "returned")
               => /\ IsKind(line, KwEndfacet)
                        => EndloopsSinceOuter(TextLines(text), CountNL(text)) = 1
                  /\ IsKind(line, KwEndloop)
                        => EndloopsSinceOuter(TextLines(text), CountNL(text)) = 0 ]_vars

\* A facet in the full order of the grammar, with one endloop line, has
\* been closed.
C27_Witness ==
    /\ frame.pc = "loop"
    /\ Len(frame.mesh.tris) = 1
    /\ frame.phase = "idle"
    /\ CountNL(text) = 8
    /\ IsKind(TextLines(text)[7], KwEndloop)
    /\ IsKind(TextLines(text)[8], KwEndfacet)

\* C28: ASCII parse returns success only if a solid header line was read; a
\* text without a non-blank line is not accepted as a mesh.
C28_SuccessNeedsHeader ==
    ParseSucceeded => \E k \in 1..Len(ConsumedLines) : IsSolidLine(ConsumedLines[k])

\* Parse has returned a mesh for a text whose header is its only line.
C28_Witness ==
    /\ ParseSucceeded
    /\ eof
    /\ Len(ConsumedLines) = 1
    /\ IsSolidLine(ConsumedLines[1])

\* The number of tokens of a keyword line of the grammar; 0 for other lines.
ShapeOf(toks) ==
    IF Len(toks) = 0 THEN 0
    ELSE IF SameWord(toks[1], KwVertex) THEN 4
    ELSE IF SameWord(toks[1], KwFacet) THEN 5
    ELSE IF SameWord(toks[1], KwOuter) THEN 2
    ELSE IF SameWord(toks[1], KwEndloop) \/ SameWord(toks[1], KwEndfacet) THEN 1
    ELSE 0

\* C29: a vertex, facet normal, outer loop, endloop or endfacet line is
\* accepted only in the token shape of the grammar; a line with further
\* tokens is rejected.
C29_ExactTokenShape ==
    [][ \A line \in ShapeLines :
           (/\ Takes(line)
            /\ frame.in_solid
            /\ ShapeOf(tokenize_ws(line)) > 0
            /\ frame'.pc # "returned")
               => Len(tokenize_ws(line)) = ShapeOf(tokenize_ws(line)) ]_vars

\* A vertex line with too few tokens has been rejected.
C29_Witness ==
    /\ frame.pc = "returned"
    /\ frame.phase = "have_v1"
    /\ frame.result = Unexpected(<<"Line ", 5, ": ", "Expected three floats">>)

\* C30: ASCII parse of ASCII serialize(m) returns a mesh whose name is
\* m.name, for every name.
C30_NameRoundTrip ==
    (src.codec = "ascii" /\ frame.pc = "returned")
        => /\ frame.result.kind = "mesh"
           /\ frame.result.mesh.name = src.mesh.name

\* A name of two words one space apart has been written and read back.
C30_Witness ==
    /\ src.codec = "ascii"
    /\ ParseSucceeded
    /\ src.mesh.name = B("a b")
    /\ frame.result.mesh.name = B("a b")

(***************************************************************************)
(* Further properties of Binary::parse and of the autodetection.           *)
(***************************************************************************)
\* The three errors that Binary::parse returns.
BinaryErrors ==
    { Unexpected(<<"Binary STL: failed to read 80-byte header">>),
      Unexpected(<<"Binary STL: failed to read triangle count">>),
      Unexpected(<<"Binary STL: unexpected EOF in triangle data">>) }

\* C31: for every count field Binary::parse ends in a mesh or in one of its
\* three errors; the storage reserved for count triangles before the records
\* are read never makes the call end otherwise.
C31_EndsInMeshOrError ==
    bin.pc = "returned" => (bin.result.kind = "mesh" \/ bin.result \in BinaryErrors)

\* A stream with the largest count field and no record has given the error
\* unexpected EOF in triangle data.
C31_Witness ==
    /\ bin.pc = "returned"
    /\ bin.triCount = 2147483647
    /\ Len(is.data) = 84
    /\ bin.result = Unexpected(<<"Binary STL: unexpected EOF in triangle data">>)


RECURSIVE BinRun(_, _, _, _)
\* Binary::parse run from the position b to its return, the reservation
\* granted or not: the stream and the call when it has returned.
BinRun(s, b, cmn, granted) ==
    IF b.pc = "returned" THEN [is |-> s, b |-> b]
    ELSE IF b.pc = "header"
    THEN BinRun(BinReadHeader(s, b).is, BinReadHeader(s, b).b, cmn, granted)
    ELSE IF b.pc = "count"
    THEN BinRun(BinReadCount(s, b).is, BinReadCount(s, b).b, cmn, granted)
    ELSE IF b.pc = "reserve"
    THEN BinRun(s, BinReserve(b, granted), cmn, granted)
    ELSE BinRun(BinRecord(s, b, cmn).is, BinRecord(s, b, cmn).b, cmn, granted)

\* The bytes put after the last record in place of those of the input.
Tails == {<<>>, <<255, 0>>, B("solid a")}

\* The first n bytes of data with the two attribute bytes of every record
\* changed, followed by tail.
Altered(data, n, tail) ==
    [i \in 1..n |-> IF i > 84 /\ (i - 85) % 50 >= 48 THEN 255 - data[i] ELSE data[i]]
        \o tail

\* The stream of data read after the caller has read the bytes of Consumed.
After(data) ==
    [data |-> Consumed \o data, pos |-> Len(Consumed), fail |-> FALSE, eofbit |-> FALSE,
     seekable |-> TRUE]

\* Binary::parse gives the result res and reads n bytes, whatever the
\* attribute bytes, the bytes after the last record and the position it
\* starts at.
SameForAll(data, n, res, cmn) ==
    /\ \A tail \in Tails :
           BinRun(IStream(Altered(data, n, tail)), BinEntry, cmn, TRUE).b.result
               = res
    /\ BinRun(After(data), BinEntry, cmn, TRUE).b.result = res
    /\ BinRun(After(data), BinEntry, cmn, TRUE).is.pos = Len(Consumed) + n

\* C32: a successful Binary::parse has read 84 + 50 * count bytes from the
\* position it started at, and its result is the same whatever the attribute
\* bytes of the records and the bytes after the last record.
C32_ReadsExactlyTheRecords ==
    (bin.pc = "returned" /\ bin.result.kind = "mesh")
        => /\ is.pos = 84 + 50 * CountField(is.data)
           /\ SameForAll(is.data, is.pos, bin.result, compute_missing_normals)

\* A parse of one record followed by more bytes has succeeded.
C32_Witness ==
    /\ bin.pc = "returned"
    /\ bin.result.kind = "mesh"
    /\ Len(bin.result.mesh.tris) = 1
    /\ is.pos = 134
    /\ Len(is.data) > is.pos


(***************************************************************************)
(* The autodetecting parse called on what the serializers wrote.           *)
(***************************************************************************)
\* The bytes Binary::serialize wrote are opened as a stream and the
\* autodetecting parse is called on it.
AutoOnBinary ==
    /\ src.codec = "binary"
    /\ ser.pc = "returned"
    /\ ser.result = Returned(TRUE)
    /\ auto.pc = "off"
    /\ is' = IStream(os.data)
    /\ auto' = AutoEntry
    /\ UNCHANGED <<compute_missing_normals, asciiVars, bin, serVars>>

\* The text ASCII::serialize gave is opened as a stream and the
\* autodetecting parse is called on it.
AutoOnAscii ==
    /\ AsciiDone
    /\ auto.pc = "off"
    /\ is' = IStream(AsciiOut)
    /\ auto' = AutoEntry
    /\ UNCHANGED <<compute_missing_normals, asciiVars, bin, serVars>>

NextDetect ==
    \/ SerHeaderStep
    \/ SerCountStep
    \/ SerRecordStep
    \/ AsciiSerialize
    \/ AsciiSerializeStream
    \/ AutoOnBinary
    \/ AutoOnAscii
    \/ Probe
    \/ DispatchAscii
    \/ DispatchBinary
    \/ BinHeaderStep
    \/ BinCountStep
    \/ BinReserveGranted
    \/ BinReserveRefused
    \/ BinRecordStep

\* Every source of BinarySources and AsciiSources serialized and given to the
\* autodetecting parse.
SpecDetect == InitRoundTrip /\ [][NextDetect]_vars

\* The autodetecting parse has returned from Binary::parse with a result
\* Binary::parse gives on the bytes written, the reservation granted or not.
AsBinaryParse ==
    /\ bin.pc = "returned"
    /\ \E granted \in BOOLEAN :
           auto.result
               = BinRun(IStream(os.data), BinEntry, compute_missing_normals, granted).b.result

\* The autodetecting parse has returned from ASCII::parse, Binary::parse not
\* called, with the result ASCII::parse gives on the stream of the text s.
AsAsciiParse(s) ==
    /\ bin.pc = "off"
    /\ auto.result = AsciiStream(IStream(s), compute_missing_normals).frame.result

\* C33 as stated: the autodetecting parse of what ASCII::serialize returned
\* goes to ASCII::parse, that of what Binary::serialize wrote goes to
\* Binary::parse, for every header, and each returns what the parser returns
\* when called directly.
C33_OwnOutputRecognised ==
    auto.pc = "returned"
        => IF src.codec = "binary" THEN AsBinaryParse
           ELSE AsAsciiParse(ascii_serialize(src.mesh, src.float_precision))

\* C33: the autodetecting parse of what ASCII::serialize returned goes to
\* ASCII::parse, and that of what Binary::serialize wrote goes to
\* Binary::parse for every header whose first six bytes are not "solid ",
\* each returning what the parser returns when called directly; under a
\* header that begins with "solid " the bytes written go to ASCII::parse.
C33_OwnOutputRecognisedUnlessSolid ==
    auto.pc = "returned"
        => IF src.codec = "ascii"
           THEN AsAsciiParse(ascii_serialize(src.mesh, src.float_precision))
           ELSE IF StartsWithSolid(src.header) THEN AsAsciiParse(os.data)
           ELSE AsBinaryParse

\* The autodetecting parse has returned a mesh of one triangle from the bytes
\* Binary::serialize wrote with a non-zero attribute under a header that does
\* not begin with "solid ".
C33_Witness ==
    /\ auto.pc = "returned"
    /\ src.codec = "binary"
    /\ ~StartsWithSolid(src.header)
    /\ src.attribute_byte_count = 513
    /\ bin.pc = "returned"
    /\ auto.result.kind = "mesh"
    /\ Len(auto.result.mesh.tris) = 1

====
